---- MODULE Spec2Model ----
(***************************************************************************)
(* A model of the compiler pipeline of kellylino/compiler:                 *)
(*   tokens -> parse -> typecheck -> generate_ir -> generate_assembly.     *)
(* Every stage is a pure function of its input (plus the objects it        *)
(* mutates in place); each is an operator computed the way the Python code *)
(* computes it, and one action of the state machine applies it.            *)
(*                                                                         *)
(* Python values are records.  AST nodes carry their class in field k and  *)
(* their type slot in field type.  Values whose Python class the code      *)
(* tests or relies on (VarExpr.name, the fields of FunctionTypeExpr,       *)
(* Literal.value) carry the class explicitly: PyStr, PyList, PyInt,        *)
(* PyBool, None.  Source locations are carried by the code from token to   *)
(* node to instruction and are read by no decision; they are left out.     *)
(***************************************************************************)
EXTENDS Integers, Sequences, FiniteSets, TLC

VARIABLES
    source_text, \* the source text handed to tokenize, character by character
    stage,    \* which stage has run last: "text", "tokenized", "source", "parsed", "typed", "retyped", "lowered", "relowered", "emitted", "interpreted", "failed"
    tokens,   \* the token list handed to parse
    ast,      \* the AST object (the type checker writes its type slots in place)
    tenv,     \* the type environment object handed to typecheck (a chain of frames)
    result,   \* what the last stage returned or raised
    first,    \* what the first typecheck run returned, and the AST as it left it
    ins,      \* the instruction list returned by generate_ir
    ins2,     \* the instruction list returned by a second generate_ir call
    asm,      \* the lines returned by generate_assembly
    ienv,     \* the environment object handed to interpret (a chain of frames)
    stdin,    \* the integers waiting on standard input, one per line
    stdout,   \* the lines printed so far
    returned  \* the value interpret returned

vars == <<source_text, stage, tokens, ast, tenv, result, first, ins, ins2, asm, ienv, stdin, stdout, returned>>

-----------------------------------------------------------------------------
(* Python values *)

None == [k |-> "None"]
PyStr(s) == [k |-> "str", s |-> s]
PyList(items) == [k |-> "list", items |-> items]
\* bool is a subclass of int in Python: True == 1 and False == 0
\* Python's integers are unbounded.  An int object is the number
\* k * 2^32 + v, where v is its low word read as a signed 32-bit number
\* (-2^31 <= v < 2^31) and k counts the words above it.
PyInt(i) == [py |-> "int", v |-> i, k |-> 0]
Wide(k, v) == [py |-> "int", v |-> v, k |-> k]

\* a < b and a <= b on int objects
int_lt(a, b) == a.k < b.k \/ (a.k = b.k /\ a.v < b.v)
int_le(a, b) == a = b \/ int_lt(a, b)

\* -a
int_neg(a) ==
    IF a.v = -2147483647 - 1 THEN Wide(1 - a.k, a.v) ELSE Wide(0 - a.k, 0 - a.v)

\* the last count decimal digits of n >= 0, leading zeros kept
RECURSIVE Digits(_, _)
Digits(n, count) ==
    IF count = 0 THEN "" ELSE Digits(n \div 10, count - 1) \o ToString(n % 10)

Billion == 1000000000

\* the decimal digits of hi * 10^9 + lo, where 0 <= lo < 10^9
Decimal(hi, lo) ==
    IF hi >= 0
    THEN IF hi = 0 THEN ToString(lo) ELSE ToString(hi) \o Digits(lo, 9)
    ELSE IF lo = 0 THEN "-" \o ToString(0 - hi) \o Digits(0, 9)
    ELSE IF hi = -1 THEN "-" \o ToString(Billion - lo)
    ELSE "-" \o ToString(0 - hi - 1) \o Digits(Billion - lo, 9)

\* str(i) of an int object: 2^32 = 4 * 10^9 + 294967296
int_str(i) ==
    IF i.k = 0 THEN ToString(i.v)
    ELSE LET low == i.k * 294967296 + (i.v % Billion)
         IN  Decimal(4 * i.k + (i.v \div Billion) + (low \div Billion), low % Billion)
PyBool(b) == [py |-> "bool", v |-> IF b THEN 1 ELSE 0]

-----------------------------------------------------------------------------
(* compiler/types.py *)

\* Int = IntType() in the source; Int is the set of integers here
IntType == [k |-> "Int"]
Bool == [k |-> "Bool"]
Unit == [k |-> "Unit"]
FunType(params, return_type) == [k |-> "Fun", params |-> params, return_type |-> return_type]

-----------------------------------------------------------------------------
(* compiler/ast.py: every node starts with type = Unit *)

Literal(value) == [k |-> "Literal", type |-> Unit, value |-> value]
Identifier(name) == [k |-> "Identifier", type |-> Unit, name |-> name]
UnaryOp(op, operand) == [k |-> "UnaryOp", type |-> Unit, op |-> op, operand |-> operand]
BinaryOp(left, op, right) ==
    [k |-> "BinaryOp", type |-> Unit, left |-> left, op |-> op, right |-> right]
IfThenElse(condition, then_branch, else_branch) ==
    [k |-> "IfThenElse", type |-> Unit, condition |-> condition,
     then_branch |-> then_branch, else_branch |-> else_branch]
WhileExpr(condition, body) ==
    [k |-> "WhileExpr", type |-> Unit, condition |-> condition, body |-> body]
FunctionExpr(function_name, arguments) ==
    [k |-> "FunctionExpr", type |-> Unit, function_name |-> function_name,
     arguments |-> arguments]
BlockExpr(statements) == [k |-> "BlockExpr", type |-> Unit, statements |-> statements]
FunctionTypeExpr(return_type, param_types) ==
    [k |-> "FunctionTypeExpr", type |-> Unit, return_type |-> return_type,
     param_types |-> param_types]
VarExpr(name, initializer, typed) ==
    [k |-> "VarExpr", type |-> Unit, name |-> name, initializer |-> initializer,
     typed |-> typed]

-----------------------------------------------------------------------------
(* compiler/tokenizer.py.  A source string is the sequence of its           *)
(* characters; the index i is 1-based here (source_code[i - 1] in the code). *)

Letters ==
    { "a", "b", "c", "d", "e", "f", "g", "h", "i", "j", "k", "l", "m",
      "n", "o", "p", "q", "r", "s", "t", "u", "v", "w", "x", "y", "z",
      "A", "B", "C", "D", "E", "F", "G", "H", "I", "J", "K", "L", "M",
      "N", "O", "P", "Q", "R", "S", "T", "U", "V", "W", "X", "Y", "Z", "_" }
Digits09 == { "0", "1", "2", "3", "4", "5", "6", "7", "8", "9" }

\* char.isspace() for the characters a source is typed with
isspace(char) == char \in {" ", "\t", "\n", "\r", "\f"}

Location(line, column) == [line |-> line, column |-> column]

\* source_code.startswith(prefix, i)
startswith(source_code, prefix, i) ==
    /\ i + Len(prefix) - 1 <= Len(source_code)
    /\ SubSeq(source_code, i, i + Len(prefix) - 1) = prefix

\* the number of characters of S, followed by characters of Rest, at i, as
\* the greedy [S][Rest]* matches them (0: no match)
RECURSIVE run_length(_, _, _)
run_length(source_code, i, Rest) ==
    IF i <= Len(source_code) /\ source_code[i] \in Rest
    THEN 1 + run_length(source_code, i + 1, Rest)
    ELSE 0

\* len(match.group(0)) for pattern.match(source_code, i), 0 when it is None
match_length(pattern, source_code, i) ==
    CASE pattern = "identifier" ->
            IF i <= Len(source_code) /\ source_code[i] \in Letters
            THEN 1 + run_length(source_code, i + 1, Letters \cup Digits09) ELSE 0
      [] pattern = "int_literal" -> run_length(source_code, i, Digits09)
      [] pattern = "operators" ->
            IF \E lead \in {"=", "!", "<", ">"} : startswith(source_code, <<lead, "=">>, i)
            THEN 2
            ELSE IF source_code[i] \in {"+", "-", "*", "/", "%", "=", "<", ">"} THEN 1 ELSE 0
      [] pattern = "punctuation" ->
            IF source_code[i] \in {"(", ")", "{", "}", ",", ";"} THEN 1 ELSE 0

patterns == <<"identifier", "int_literal", "operators", "punctuation">>

\* the characters source_code[i .. i + count - 1] as one string
RECURSIVE text_at(_, _, _)
text_at(source_code, i, count) ==
    IF count = 0 THEN "" ELSE source_code[i] \o text_at(source_code, i + 1, count - 1)

\* the comment loop, leaving also the newline behind
RECURSIVE skip_comment_and_newline(_, _)
skip_comment_and_newline(source_code, i) ==
    IF i <= Len(source_code) /\ source_code[i] # "\n"
    THEN skip_comment_and_newline(source_code, i + 1)
    ELSE i + 1

\* while i < len(source_code) and source_code[i] != '\n': i += 1
RECURSIVE skip_comment(_, _)
skip_comment(source_code, i) ==
    IF i <= Len(source_code) /\ source_code[i] # "\n"
    THEN skip_comment(source_code, i + 1)
    ELSE i

\* the first pattern of the list, from the k-th on, that matches at i (0: none)
RECURSIVE first_match(_, _, _)
first_match(source_code, i, k) ==
    IF k > Len(patterns) THEN 0
    ELSE IF match_length(patterns[k], source_code, i) > 0 THEN k
    ELSE first_match(source_code, i, k + 1)

RECURSIVE tokenize_from(_, _, _, _, _)

\* tokens.append(Token(text, token_type, loc)) for the pattern that matched,
\* or Token(char, 'other', loc)
tokenize_token(source_code, i, line, column, toks, k) ==
    IF k > 0
    THEN tokenize_from(source_code, i + match_length(patterns[k], source_code, i), line,
                       column + match_length(patterns[k], source_code, i),
                       Append(toks, [text |-> text_at(source_code, i,
                                                      match_length(patterns[k], source_code, i)),
                                     type |-> patterns[k],
                                     loc |-> Location(line, column)]))
    ELSE tokenize_from(source_code, i + 1, line, column + 1,
                       Append(toks, [text |-> source_code[i], type |-> "other",
                                     loc |-> Location(line, column)]))

tokenize_from(source_code, i, line, column, toks) ==
    IF i > Len(source_code) THEN toks
    ELSE IF source_code[i] = "\n" THEN tokenize_from(source_code, i + 1, line + 1, 1, toks)
    ELSE IF isspace(source_code[i])
    THEN tokenize_from(source_code, i + 1, line, column + 1, toks)
    ELSE IF startswith(source_code, <<"/", "/">>, i) \/ startswith(source_code, <<"#">>, i)
    THEN tokenize_from(source_code, skip_comment(source_code, i), line, column, toks)
    ELSE tokenize_token(source_code, i, line, column, toks, first_match(source_code, i, 1))

tokenize(source_code) == tokenize_from(source_code, 1, 1, 1, <<>>)

(* The later stages read a token's text and kind only; for them a token is  *)
(* given by its text, with the kind the tokenizer gives that text.          *)

IntTexts == {"0", "1", "2", "3", "2147483647", "2147483648"}
OperatorTexts == {"==", "!=", "<=", ">=", "+", "-", "*", "/", "%", "=", "<", ">"}
PunctuationTexts == {"(", ")", "{", "}", ",", ";"}
OtherTexts == {":"}

TokenType(text) ==
    IF text \in IntTexts THEN "int_literal"
    ELSE IF text \in OperatorTexts THEN "operators"
    ELSE IF text \in PunctuationTexts THEN "punctuation"
    ELSE IF text \in OtherTexts THEN "other"
    ELSE "identifier"

Token(text) == [text |-> text, type |-> TokenType(text)]

\* Python's int(token.text) on the literal texts of the model
int(text) ==
    CASE text = "0" -> PyInt(0) [] text = "1" -> PyInt(1)
      [] text = "2" -> PyInt(2) [] text = "3" -> PyInt(3)
      [] text = "2147483647" -> PyInt(2147483647)
      [] text = "2147483648" -> Wide(1, -2147483647 - 1)

-----------------------------------------------------------------------------
(* compiler/parser.py.  The cursor pos is 1-based here (tokens[pos - 1] in  *)
(* the code).  A parsing function returns the node and the new cursor, or   *)
(* the message of the exception it raised.                                  *)

\* the table with its two arithmetic levels in the other order
left_associative_binary_operators_swapped ==
    << {"or"}, {"and"}, {"==", "!="}, {"<", "<=", ">", ">="}, {"*", "/", "%"}, {"+", "-"} >>

left_associative_binary_operators ==
    << {"or"}, {"and"}, {"==", "!="}, {"<", "<=", ">", ">="}, {"+", "-"}, {"*", "/", "%"} >>

Parsed(node, pos) == [ok |-> TRUE, node |-> node, pos |-> pos, msg |-> ""]
ParseError(msg) == [ok |-> FALSE, node |-> None, pos |-> 0, msg |-> msg]

peek(toks, pos) ==
    IF pos <= Len(toks) THEN toks[pos] ELSE [text |-> "", type |-> "end"]

\* consume(expected): the token is returned in node
consume(toks, pos, expected) ==
    IF peek(toks, pos).text # expected
    THEN ParseError("expected \"" \o expected \o "\"")
    ELSE Parsed(peek(toks, pos), pos + 1)

parse_int_literal(toks, pos) ==
    IF peek(toks, pos).type # "int_literal"
    THEN ParseError("expected an integer literal")
    ELSE Parsed(Literal(int(peek(toks, pos).text)), pos + 1)

parse_identifier(toks, pos) ==
    IF peek(toks, pos).type # "identifier"
    THEN ParseError("expected an identifier")
    ELSE Parsed(Identifier(peek(toks, pos).text), pos + 1)

\* an exception raised by a call propagates; otherwise the caller goes on with
\* what the call returned
AndThen(r, Continue(_)) == IF r.ok THEN Continue(r) ELSE r

\* the same for the stages after the parser, whose outcomes carry the name of
\* the exception raised
Then(r, Continue(_)) == IF r.exc = "" THEN Continue(r) ELSE r

\* a local name for a value: the value is computed, and the rest of the
\* function goes on with it
With(value, Continue(_)) == [v \in {value} |-> Continue(v)][value]

RECURSIVE parse_assignment(_, _)
RECURSIVE parse_level(_, _, _)
RECURSIVE parse_level_loop(_, _, _, _)
RECURSIVE parse_levels(_, _, _, _)
RECURSIVE parse_factor(_, _)
RECURSIVE parse_block_loop(_, _, _)
RECURSIVE parse_function_loop(_, _, _)
RECURSIVE parse_param_types_loop(_, _, _)
RECURSIVE parse_unary_expression(_, _)

parse_expression_no_var(toks, pos) ==
    IF peek(toks, pos).text = "var"
    THEN ParseError("unexpected token var, var is only allowed directly inside blocks {} and in top-level expressions")
    ELSE parse_assignment(toks, pos)

parse_parenthesized(toks, pos) ==
    AndThen(consume(toks, pos, "("), LAMBDA open :
    AndThen(parse_assignment(toks, open.pos), LAMBDA expr :
    AndThen(consume(toks, expr.pos, ")"), LAMBDA close :
    Parsed(expr.node, close.pos))))

\* the while True loop of parse_function: one argument, then "," or out
parse_function_loop(toks, pos, arguments) ==
    AndThen(parse_expression_no_var(toks, pos), LAMBDA arg :
    IF peek(toks, arg.pos).text = ","
    THEN parse_function_loop(toks, arg.pos + 1, Append(arguments, arg.node))
    ELSE Parsed(PyList(Append(arguments, arg.node)), arg.pos))

parse_function(function_name, toks, pos) ==
    AndThen(consume(toks, pos, "("), LAMBDA open :
    AndThen(IF peek(toks, open.pos).text # ")"
            THEN parse_function_loop(toks, open.pos, <<>>)
            ELSE Parsed(PyList(<<>>), open.pos), LAMBDA arguments :
    AndThen(consume(toks, arguments.pos, ")"), LAMBDA close :
    Parsed(FunctionExpr(function_name, arguments.node.items), close.pos))))

\* a block loop that accepts any statement followed by any token
parse_block_loop_unchecked(toks, pos, statements) ==
    IF peek(toks, pos).text = "}"
    THEN Parsed(BlockExpr(statements), pos + 1)
    ELSE AndThen(parse_assignment(toks, pos), LAMBDA arg :
         parse_block_loop(
             toks,
             IF peek(toks, arg.pos).text = ";" THEN arg.pos + 1 ELSE arg.pos,
             Append(statements, arg.node)))

\* the while loop of parse_block
parse_block_loop(toks, pos, statements) ==
    IF peek(toks, pos).text = "}"
    THEN Parsed(BlockExpr(statements), pos + 1)
    ELSE AndThen(parse_assignment(toks, pos), LAMBDA arg :
         IF /\ arg.node.k \in {"Identifier", "Literal"}
            /\ peek(toks, arg.pos).text # "}"
            /\ peek(toks, arg.pos).text # ";"
         THEN ParseError("expected token \"}\" or \";\"")
         ELSE parse_block_loop(
                  toks,
                  IF peek(toks, arg.pos).text = ";" THEN arg.pos + 1 ELSE arg.pos,
                  Append(statements, arg.node)))

parse_block(toks, pos) ==
    AndThen(consume(toks, pos, "{"), LAMBDA open :
    parse_block_loop(toks, open.pos, <<>>))

parse_factor(toks, pos) ==
    CASE peek(toks, pos).text = "(" -> parse_parenthesized(toks, pos)
      [] peek(toks, pos).text = "{" -> parse_block(toks, pos)
      [] peek(toks, pos).type = "int_literal" -> parse_int_literal(toks, pos)
      [] peek(toks, pos).type = "identifier" ->
            AndThen(parse_identifier(toks, pos), LAMBDA identifier :
            IF peek(toks, identifier.pos).text = "("
            THEN parse_function(identifier.node, toks, identifier.pos)
            ELSE identifier)
      [] OTHER -> ParseError("expected \"(\", an integer literal or an identifier")

parse_if_expression(toks, pos) ==
    AndThen(consume(toks, pos, "if"), LAMBDA token_if :
    AndThen(parse_expression_no_var(toks, token_if.pos), LAMBDA condition :
    AndThen(consume(toks, condition.pos, "then"), LAMBDA then :
    AndThen(parse_expression_no_var(toks, then.pos), LAMBDA then_branch :
    IF peek(toks, then_branch.pos).text = "else"
    THEN AndThen(parse_expression_no_var(toks, then_branch.pos + 1), LAMBDA else_branch :
         Parsed(IfThenElse(condition.node, then_branch.node, else_branch.node),
                else_branch.pos))
    ELSE Parsed(IfThenElse(condition.node, then_branch.node, None), then_branch.pos)))))

parse_while_expression(toks, pos) ==
    AndThen(consume(toks, pos, "while"), LAMBDA token_while :
    AndThen(parse_expression_no_var(toks, token_while.pos), LAMBDA condition :
    AndThen(consume(toks, condition.pos, "do"), LAMBDA do :
    AndThen(parse_expression_no_var(toks, do.pos), LAMBDA body :
    Parsed(WhileExpr(condition.node, body.node), body.pos)))))

\* the while True loop over the parameter types of a function type annotation
parse_param_types_loop(toks, pos, param_types) ==
    AndThen(parse_factor(toks, pos), LAMBDA param_type :
    IF peek(toks, param_type.pos).text = ","
    THEN parse_param_types_loop(toks, param_type.pos + 1,
                                Append(param_types, param_type.node))
    ELSE Parsed(PyList(Append(param_types, param_type.node)), param_type.pos))

\* the type annotation after ":"; FunctionTypeExpr is built with positional
\* arguments (loc, param_types, return_type) against the dataclass's field
\* order (loc, return_type, param_types)
parse_type_annotation(toks, pos) ==
    IF peek(toks, pos).text = "("
    THEN AndThen(parse_param_types_loop(toks, pos + 1, <<>>), LAMBDA param_types :
         AndThen(consume(toks, param_types.pos, ")"), LAMBDA close :
         AndThen(consume(toks, close.pos, "="), LAMBDA eq :
         AndThen(consume(toks, eq.pos, ">"), LAMBDA gt :
         AndThen(parse_factor(toks, gt.pos), LAMBDA return_type :
         Parsed(FunctionTypeExpr(param_types.node, return_type.node),
                return_type.pos))))))
    ELSE parse_factor(toks, pos)

parse_var_expression(toks, pos) ==
    AndThen(consume(toks, pos, "var"), LAMBDA token_var :
    AndThen(parse_factor(toks, token_var.pos), LAMBDA name :
    AndThen(IF peek(toks, name.pos).text = ":"
            THEN parse_type_annotation(toks, name.pos + 1)
            ELSE Parsed(None, name.pos), LAMBDA typed :
    AndThen(consume(toks, typed.pos, "="), LAMBDA eq :
    AndThen(parse_assignment(toks, eq.pos), LAMBDA initializer :
    Parsed(VarExpr(name.node, initializer.node, typed.node), initializer.pos))))))

\* token_op = consume() takes the operator, whatever it is
parse_unary_expression(toks, pos) ==
    AndThen(IF peek(toks, pos + 1).text = "not" \/ peek(toks, pos + 1).text = "-"
            THEN parse_unary_expression(toks, pos + 1)
            ELSE parse_factor(toks, pos + 1), LAMBDA operand :
    Parsed(UnaryOp(peek(toks, pos).text, operand.node), operand.pos))

\* make_binary_parser's innermost parser, reached at level >= len(operators_levels)
parse_base(toks, pos) ==
    CASE peek(toks, pos).text = "if" -> parse_if_expression(toks, pos)
      [] peek(toks, pos).text = "while" -> parse_while_expression(toks, pos)
      [] peek(toks, pos).text = "var" -> parse_var_expression(toks, pos)
      [] peek(toks, pos).text \in {"not", "-"} -> parse_unary_expression(toks, pos)
      [] OTHER -> parse_factor(toks, pos)

\* the while loop of parse_level: left-folds the operators of the current level
parse_level_loop(level, toks, pos, left) ==
    IF peek(toks, pos).text \in left_associative_binary_operators[level]
    THEN AndThen(parse_level(level + 1, toks, pos + 1), LAMBDA right :
         parse_level_loop(level, toks, right.pos,
                          BinaryOp(left, peek(toks, pos).text, right.node)))
    ELSE Parsed(left, pos)

\* the parsers of make_binary_parser from the innermost level out to `level`:
\* each begins with left = next_level_parser(), so parse_base reads first, and
\* the while loop of level `current` runs on what the level inside it returned
parse_levels(level, toks, current, left) ==
    IF left.ok /\ level <= current
    THEN parse_levels(level, toks, current - 1,
                      parse_level_loop(current, toks, left.pos, left.node))
    ELSE left

\* make_binary_parser(operators_levels, level) applied; levels are 1-based here
parse_level(level, toks, pos) ==
    parse_levels(level, toks, Len(left_associative_binary_operators),
                 parse_base(toks, pos))

parse_expression(toks, pos) == parse_level(1, toks, pos)

\* an assignment whose right operand is an expression of the table only
parse_assignment_once(toks, pos) ==
    AndThen(parse_expression(toks, pos), LAMBDA left :
    IF peek(toks, left.pos).text = "="
    THEN AndThen(parse_expression(toks, left.pos + 1), LAMBDA right :
         Parsed(BinaryOp(left.node, "=", right.node), right.pos))
    ELSE left)

parse_assignment(toks, pos) ==
    AndThen(parse_expression(toks, pos), LAMBDA left :
    IF peek(toks, left.pos).text = "="
    THEN AndThen(parse_assignment(toks, left.pos + 1), LAMBDA right :
         Parsed(BinaryOp(left.node, "=", right.node), right.pos))
    ELSE left)

\* the top-level statement loop of parse
RECURSIVE parse_top_loop(_, _, _)

\* a statement loop that stops at a token it cannot place and returns what it has
parse_top_loop_stopping(toks, pos, statements) ==
    IF peek(toks, pos).type = "end"
    THEN Parsed(PyList(statements), pos)
    ELSE AndThen(parse_assignment(toks, pos), LAMBDA stmt :
         IF peek(toks, stmt.pos).text = ";"
         THEN parse_top_loop(toks, stmt.pos + 1, Append(statements, stmt.node))
         ELSE IF peek(toks, stmt.pos).type # "end"
         THEN Parsed(PyList(Append(statements, stmt.node)), stmt.pos)
         ELSE parse_top_loop(toks, stmt.pos, Append(statements, stmt.node)))

parse_top_loop(toks, pos, statements) ==
    IF peek(toks, pos).type = "end"
    THEN Parsed(PyList(statements), pos)
    ELSE AndThen(parse_assignment(toks, pos), LAMBDA stmt :
         IF peek(toks, stmt.pos).text = ";"
         THEN parse_top_loop(toks, stmt.pos + 1, Append(statements, stmt.node))
         ELSE IF peek(toks, stmt.pos).type # "end"
         THEN ParseError("unexpected token \"" \o peek(toks, stmt.pos).text
                         \o "\" after complete expression")
         ELSE parse_top_loop(toks, stmt.pos, Append(statements, stmt.node)))

parse(toks) ==
    IF toks = <<>>
    THEN ParseError("Empty input: expected an expression")
    ELSE AndThen(parse_top_loop(toks, 1, <<>>), LAMBDA statements :
         IF Len(statements.node.items) = 1
         THEN Parsed(statements.node.items[1], statements.pos)
         ELSE Parsed(BlockExpr(statements.node.items), statements.pos))

-----------------------------------------------------------------------------
(* compiler/type_checker.py.  A SymTab chain is the sequence of its frames, *)
(* outermost first; the SymTab object a call receives is the last frame.    *)
(* typecheck returns the type (or the exception raised), and with it the    *)
(* node and the environment as the call left them: both are mutated in      *)
(* place by the code, also on the way to an exception.                      *)

EmptyFrame == [n \in {} |-> Unit]

define(env, name, value_type) ==
    [env EXCEPT ![Len(env)] = (name :> value_type) @@ @]

RECURSIVE lookup(_, _)
lookup(env, name) ==
    IF env = <<>> THEN [found |-> FALSE, t |-> Unit]
    ELSE IF name \in DOMAIN env[Len(env)]
    THEN [found |-> TRUE, t |-> env[Len(env)][name]]
    ELSE lookup(SubSeq(env, 1, Len(env) - 1), name)

setup_type_env ==
    << [n \in {"+", "-", "*", "/", "%"} |-> FunType(<<IntType, IntType>>, IntType)]
       @@ [n \in {"<", "<=", ">", ">="} |-> FunType(<<IntType, IntType>>, Bool)]
       @@ [n \in {"and", "or"} |-> FunType(<<Bool, Bool>>, Bool)]
       @@ ("unary_-" :> FunType(<<IntType>>, IntType))
       @@ ("unary_not" :> FunType(<<Bool>>, Bool))
       @@ ("print_int" :> FunType(<<IntType>>, Unit))
       @@ ("print_bool" :> FunType(<<Bool>>, Unit))
       @@ ("read_int" :> FunType(<<>>, IntType))
       @@ ("true" :> Bool) @@ ("false" :> Bool)
       @@ ("Int" :> IntType) @@ ("Bool" :> Bool) @@ ("Unit" :> Unit) >>

\* the argument-count limit of FunctionExpr and FunctionTypeExpr
MaxArguments == 6

Returned(t, node, env) == [exc |-> "", t |-> t, node |-> node, env |-> env]
Raised(exc, node, env) == [exc |-> exc, t |-> Unit, node |-> node, env |-> env]

RECURSIVE typecheck(_, _)
RECURSIVE typecheck_helper(_, _)
RECURSIVE typecheck_arguments(_, _, _, _)
RECURSIVE typecheck_statements(_, _, _, _)
RECURSIVE typecheck_params(_, _, _, _)

typecheck_Literal(node, env) ==
    IF node.value.py = "bool" THEN Returned(Bool, node, env)
    ELSE IF node.value.py = "int" THEN Returned(IntType, node, env)
    ELSE Raised("TypeError", node, env)

typecheck_Identifier(node, env) ==
    LET value_type == lookup(env, node.name)
    IN  IF ~value_type.found THEN Raised("TypeError", node, env)
        ELSE Returned(value_type.t, node, env)

typecheck_UnaryOp(node, env) ==
    LET op_type == lookup(env, "unary_" \o node.op)
    IN  IF ~op_type.found \/ op_type.t.k # "Fun" THEN Raised("TypeError", node, env) ELSE
        LET operand == typecheck(node.operand, env)
            node1 == [node EXCEPT !.operand = operand.node]
        IN  IF operand.exc # "" THEN Raised(operand.exc, node1, operand.env)
            ELSE IF Len(op_type.t.params) = 0 THEN Raised("IndexError", node1, operand.env)
            ELSE IF op_type.t.params[1] # operand.t
            THEN Raised("TypeError", node1, operand.env)
            ELSE Returned(op_type.t.return_type, node1, operand.env)

\* left and right operands in order; used by the three BinaryOp cases
typecheck_operands(node, env) ==
    LET l == typecheck(node.left, env)
        node1 == [node EXCEPT !.left = l.node]
    IN  IF l.exc # "" THEN [exc |-> l.exc, node |-> node1, env |-> l.env,
                            t1 |-> Unit, t2 |-> Unit]
        ELSE LET r == typecheck(node.right, l.env)
             IN  [exc |-> r.exc, node |-> [node1 EXCEPT !.right = r.node],
                  env |-> r.env, t1 |-> l.t, t2 |-> r.t]

typecheck_BinaryOp(node, env) ==
    IF node.op = "="
    THEN LET o == typecheck_operands(node, env)
         IN  IF o.exc # "" THEN Raised(o.exc, o.node, o.env)
             ELSE IF o.t1 # o.t2 THEN Raised("TypeError", o.node, o.env)
             ELSE Returned(o.t2, o.node, o.env)
    ELSE IF node.op \in {"==", "!="}
    THEN LET o == typecheck_operands(node, env)
         IN  IF o.exc # "" THEN Raised(o.exc, o.node, o.env)
             ELSE IF o.t1 # o.t2 THEN Raised("TypeError", o.node, o.env)
             ELSE Returned(Bool, o.node, o.env)
    ELSE LET op_type == lookup(env, node.op)
         IN  IF ~op_type.found \/ op_type.t.k # "Fun"
             THEN Raised("TypeError", node, env)
             ELSE LET o == typecheck_operands(node, env)
                  IN  IF o.exc # "" THEN Raised(o.exc, o.node, o.env)
                      ELSE IF op_type.t.params # <<o.t1, o.t2>>
                      THEN Raised("TypeError", o.node, o.env)
                      ELSE Returned(op_type.t.return_type, o.node, o.env)

\* an if-then-else that visits its branches whatever the type of the condition
typecheck_IfThenElse_any_condition(node, env) ==
    LET c == typecheck(node.condition, env)
        node1 == [node EXCEPT !.condition = c.node]
    IN  IF c.exc # "" THEN Raised(c.exc, node1, c.env) ELSE
        LET th == typecheck(node.then_branch, c.env)
            node2 == [node1 EXCEPT !.then_branch = th.node]
        IN  IF th.exc # "" THEN Raised(th.exc, node2, th.env)
            ELSE IF node.else_branch # None
            THEN LET el == typecheck(node.else_branch, th.env)
                     node3 == [node2 EXCEPT !.else_branch = el.node]
                 IN  IF el.exc # "" THEN Raised(el.exc, node3, el.env)
                     ELSE IF th.t # el.t THEN Raised("TypeError", node3, el.env)
                     ELSE Returned(th.t, node3, el.env)
            ELSE Returned(th.t, node2, th.env)

\* an if-then-else that returns the then-branch's type without comparing it
\* with the else-branch's
typecheck_IfThenElse_then_type(node, env) ==
    LET c == typecheck(node.condition, env)
        node1 == [node EXCEPT !.condition = c.node]
    IN  IF c.exc # "" THEN Raised(c.exc, node1, c.env)
        ELSE IF c.t # Bool THEN Raised("TypeError", node1, c.env) ELSE
        LET th == typecheck(node.then_branch, c.env)
            node2 == [node1 EXCEPT !.then_branch = th.node]
        IN  IF th.exc # "" THEN Raised(th.exc, node2, th.env)
            ELSE IF node.else_branch # None
            THEN LET el == typecheck(node.else_branch, th.env)
                     node3 == [node2 EXCEPT !.else_branch = el.node]
                 IN  IF el.exc # "" THEN Raised(el.exc, node3, el.env)
                     ELSE Returned(th.t, node3, el.env)
            ELSE Returned(th.t, node2, th.env)

typecheck_IfThenElse(node, env) ==
    LET c == typecheck(node.condition, env)
        node1 == [node EXCEPT !.condition = c.node]
    IN  IF c.exc # "" THEN Raised(c.exc, node1, c.env)
        ELSE IF c.t # Bool THEN Raised("TypeError", node1, c.env) ELSE
        LET th == typecheck(node.then_branch, c.env)
            node2 == [node1 EXCEPT !.then_branch = th.node]
        IN  IF th.exc # "" THEN Raised(th.exc, node2, th.env)
            ELSE IF node.else_branch # None
            THEN LET el == typecheck(node.else_branch, th.env)
                     node3 == [node2 EXCEPT !.else_branch = el.node]
                 IN  IF el.exc # "" THEN Raised(el.exc, node3, el.env)
                     ELSE IF th.t # el.t THEN Raised("TypeError", node3, el.env)
                     ELSE Returned(th.t, node3, el.env)
            ELSE Returned(th.t, node2, th.env)

typecheck_WhileExpr(node, env) ==
    LET c == typecheck(node.condition, env)
        node1 == [node EXCEPT !.condition = c.node]
    IN  IF c.exc # "" THEN Raised(c.exc, node1, c.env)
        ELSE IF c.t # Bool THEN Raised("TypeError", node1, c.env) ELSE
        LET b == typecheck(node.body, c.env)
            node2 == [node1 EXCEPT !.body = b.node]
        IN  IF b.exc # "" THEN Raised(b.exc, node2, b.env)
            ELSE Returned(Unit, node2, b.env)

\* for arg, expected_type in zip(node.arguments, func_type.params): the loop
\* ends with the shorter of the two sequences
typecheck_arguments(arguments, params, i, env) ==
    IF i > Len(arguments) \/ i > Len(params)
    THEN [exc |-> "", arguments |-> arguments, env |-> env]
    ELSE LET arg == typecheck(arguments[i], env)
             arguments1 == [arguments EXCEPT ![i] = arg.node]
         IN  IF arg.exc # "" THEN [exc |-> arg.exc, arguments |-> arguments1, env |-> arg.env]
             ELSE IF arg.t # params[i]
             THEN [exc |-> "TypeError", arguments |-> arguments1, env |-> arg.env]
             ELSE typecheck_arguments(arguments1, params, i + 1, arg.env)

\* typecheck_FunctionExpr without the limit on the number of arguments
typecheck_FunctionExpr_unlimited(node, env) ==
    IF node.function_name.k # "Identifier" THEN Raised("AssertionError", node, env)
    ELSE LET func_type == lookup(env, node.function_name.name)
         IN  IF ~func_type.found \/ func_type.t.k # "Fun"
             THEN Raised("TypeError", node, env)
             ELSE LET args == typecheck_arguments(node.arguments, func_type.t.params, 1, env)
                      node1 == [node EXCEPT !.arguments = args.arguments]
                  IN  IF args.exc # "" THEN Raised(args.exc, node1, args.env)
                      ELSE Returned(func_type.t.return_type, node1, args.env)

typecheck_FunctionExpr(node, env) ==
    IF Len(node.arguments) > MaxArguments THEN Raised("TypeError", node, env)
    ELSE IF node.function_name.k # "Identifier" THEN Raised("AssertionError", node, env)
    ELSE LET func_type == lookup(env, node.function_name.name)
         IN  IF ~func_type.found \/ func_type.t.k # "Fun"
             THEN Raised("TypeError", node, env)
             ELSE LET args == typecheck_arguments(node.arguments, func_type.t.params, 1, env)
                      node1 == [node EXCEPT !.arguments = args.arguments]
                  IN  IF args.exc # "" THEN Raised(args.exc, node1, args.env)
                      ELSE Returned(func_type.t.return_type, node1, args.env)

\* for stmt in node.statements: last_type = typecheck(stmt, block_env)
typecheck_statements(statements, i, last_type, env) ==
    IF i > Len(statements)
    THEN [exc |-> "", t |-> last_type, statements |-> statements, env |-> env]
    ELSE LET stmt == typecheck(statements[i], env)
             statements1 == [statements EXCEPT ![i] = stmt.node]
         IN  IF stmt.exc # ""
             THEN [exc |-> stmt.exc, t |-> Unit, statements |-> statements1, env |-> stmt.env]
             ELSE typecheck_statements(statements1, i + 1, stmt.t, stmt.env)

\* block_env = SymTab(parent=env) lives for the loop only: the frame is dropped
typecheck_BlockExpr(node, env) ==
    LET block == typecheck_statements(node.statements, 1, Unit, Append(env, EmptyFrame))
        node1 == [node EXCEPT !.statements = block.statements]
        env1 == SubSeq(block.env, 1, Len(env))
    IN  IF block.exc # "" THEN Raised(block.exc, node1, env1)
        ELSE Returned(block.t, node1, env1)

\* tuple(typecheck(param, env) for param in node.param_types)
typecheck_params(param_types, i, types, env) ==
    IF i > Len(param_types)
    THEN [exc |-> "", types |-> types, param_types |-> param_types, env |-> env]
    ELSE LET param == typecheck(param_types[i], env)
             param_types1 == [param_types EXCEPT ![i] = param.node]
         IN  IF param.exc # ""
             THEN [exc |-> param.exc, types |-> types, param_types |-> param_types1,
                   env |-> param.env]
             ELSE typecheck_params(param_types1, i + 1, Append(types, param.t), param.env)

\* len() and iteration of param_types raise TypeError on a value that is no list
typecheck_FunctionTypeExpr(node, env) ==
    IF node.param_types # None /\ node.param_types.k # "list"
    THEN Raised("TypeError", node, env)
    ELSE IF node.param_types # None /\ Len(node.param_types.items) > MaxArguments
    THEN Raised("TypeError", node, env)
    ELSE LET params == IF node.param_types # None
                       THEN typecheck_params(node.param_types.items, 1, <<>>, env)
                       ELSE [exc |-> "", types |-> <<>>, param_types |-> <<>>, env |-> env]
             node1 == IF node.param_types # None
                      THEN [node EXCEPT !.param_types = PyList(params.param_types)]
                      ELSE node
         IN  IF params.exc # "" THEN Raised(params.exc, node1, params.env)
             ELSE LET ret == typecheck(node.return_type, params.env)
                      node2 == [node1 EXCEPT !.return_type = ret.node]
                  IN  IF ret.exc # "" THEN Raised(ret.exc, node2, ret.env)
                      ELSE Returned(FunType(params.types, ret.t), node2, ret.env)

typecheck_VarExpr(node, env) ==
    IF node.name.k # "str" THEN Raised("AssertionError", node, env) ELSE
    LET init == typecheck(node.initializer, env)
        node1 == [node EXCEPT !.initializer = init.node]
    IN  IF init.exc # "" THEN Raised(init.exc, node1, init.env)
        ELSE IF node.typed # None
        THEN LET typed == typecheck(node.typed, init.env)
                 node2 == [node1 EXCEPT !.typed = typed.node]
             IN  IF typed.exc # "" THEN Raised(typed.exc, node2, typed.env)
                 ELSE IF init.t # typed.t THEN Raised("TypeError", node2, typed.env)
                 ELSE Returned(Unit, node2, define(typed.env, node.name.s, init.t))
        ELSE Returned(Unit, node1, define(init.env, node.name.s, init.t))

typecheck_helper(node, env) ==
    CASE node.k = "Literal" -> typecheck_Literal(node, env)
      [] node.k = "Identifier" -> typecheck_Identifier(node, env)
      [] node.k = "UnaryOp" -> typecheck_UnaryOp(node, env)
      [] node.k = "BinaryOp" -> typecheck_BinaryOp(node, env)
      [] node.k = "IfThenElse" -> typecheck_IfThenElse(node, env)
      [] node.k = "WhileExpr" -> typecheck_WhileExpr(node, env)
      [] node.k = "FunctionExpr" -> typecheck_FunctionExpr(node, env)
      [] node.k = "BlockExpr" -> typecheck_BlockExpr(node, env)
      [] node.k = "FunctionTypeExpr" -> typecheck_FunctionTypeExpr(node, env)
      [] node.k = "VarExpr" -> typecheck_VarExpr(node, env)
      [] OTHER -> Raised("TypeError", node, env)

\* t = typecheck_helper(node, env); node.type = t; return t
typecheck(node, env) ==
    LET r == typecheck_helper(node, env)
    IN  IF r.exc # "" THEN r ELSE [r EXCEPT !.node.type = r.t]

-----------------------------------------------------------------------------
(* compiler/ir_generator.py.  An IRVar is its name; a Label is its name.    *)
(* The closure state of one generate_ir call (var_counter, the list lable,  *)
(* the instruction list ins) is the record ctx threaded through visit.      *)
(* Instruction fields are in the order of the positional constructor calls. *)

Label(name) == [op |-> "Label", name |-> name]
LoadIntConst(value, dest) == [op |-> "LoadIntConst", value |-> value, dest |-> dest]
LoadBoolConst(value, dest) == [op |-> "LoadBoolConst", value |-> value, dest |-> dest]
Copy(source, dest) == [op |-> "Copy", source |-> source, dest |-> dest]
Call(fun, args, dest) == [op |-> "Call", fun |-> fun, args |-> args, dest |-> dest]
Jump(label) == [op |-> "Jump", label |-> label]
CondJump(cond, then_label, else_label) ==
    [op |-> "CondJump", cond |-> cond, then_label |-> then_label, else_label |-> else_label]

var_unit == "unit"

\* lable_counter is set once and never incremented
lable_counter == 1

reserved_names ==
    {"+", "-", "*", "/", "%", "<", "<=", ">", ">=", "==", "!=", "=", "and", "or",
     "unary_-", "unary_not", "print_int", "print_bool", "read_int", "true", "false",
     "Int", "Bool", "Unit"}

\* a generator whose instruction list outlives the call that filled it
NewContext_kept == [var_counter |-> 1, lable |-> <<>>, ins |-> ins]

NewContext == [var_counter |-> 1, lable |-> <<>>, ins |-> <<>>]

\* new_var(): the name and the context with the counter advanced
new_var(ctx) ==
    [var |-> IF ctx.var_counter = 1 THEN "x" ELSE "x" \o ToString(ctx.var_counter),
     ctx |-> [ctx EXCEPT !.var_counter = @ + 1]]

InList(x, list) == \E i \in 1..Len(list) : list[i] = x

\* new_label(loc, base_name): the label name and the context with it recorded
new_label(ctx, base_name) ==
    LET label_name == IF ~InList(base_name, ctx.lable)
                      THEN base_name
                      ELSE base_name \o ToString(lable_counter + 1)
    IN  [label |-> label_name, ctx |-> [ctx EXCEPT !.lable = Append(@, label_name)]]

emit(ctx, insn) == [ctx EXCEPT !.ins = Append(@, insn)]

add_local(st, name, value) == [st EXCEPT ![Len(st)] = (name :> value) @@ @]

RECURSIVE require(_, _)
require(st, name) ==
    IF st = <<>> THEN [found |-> FALSE, var |-> var_unit]
    ELSE IF name \in DOMAIN st[Len(st)]
    THEN [found |-> TRUE, var |-> st[Len(st)][name]]
    ELSE require(SubSeq(st, 1, Len(st) - 1), name)

Visited(var, st, ctx) == [exc |-> "", var |-> var, st |-> st, ctx |-> ctx]
VisitRaised(exc, st, ctx) == [exc |-> exc, var |-> var_unit, st |-> st, ctx |-> ctx]

RECURSIVE visit(_, _, _)
RECURSIVE visit_arguments(_, _, _, _, _)
RECURSIVE visit_statements(_, _, _, _, _)

visit_Literal(st, expr, ctx) ==
    IF expr.value.py \in {"bool", "int"}
    THEN LET v == new_var(ctx)
         IN  Visited(v.var, st,
                     emit(v.ctx, IF expr.value.py = "bool"
                                 THEN LoadBoolConst(expr.value.v = 1, v.var)
                                 ELSE LoadIntConst(expr.value, v.var)))
    ELSE IF expr.value.py = "NoneType" THEN Visited(var_unit, st, ctx)
    ELSE VisitRaised("Exception", st, ctx)

visit_Identifier(st, expr, ctx) ==
    IF expr.name \in {"true", "false"}
    THEN LET v == new_var(ctx)
         IN  Visited(v.var, st, emit(v.ctx, LoadBoolConst(expr.name = "true", v.var)))
    ELSE LET var == require(st, expr.name)
         IN  IF ~var.found THEN VisitRaised("KeyError", st, ctx)
             ELSE Visited(var.var, st, ctx)

visit_UnaryOp(st, expr, ctx) ==
    With(require(st, "unary_" \o expr.op), LAMBDA var_op :
    IF ~var_op.found THEN VisitRaised("KeyError", st, ctx) ELSE
    Then(visit(st, expr.operand, ctx), LAMBDA operand :
    With(new_var(operand.ctx), LAMBDA r :
    Visited(r.var, operand.st, emit(r.ctx, Call(var_op.var, <<operand.var>>, r.var))))))

visit_Assignment(st, expr, ctx) ==
    Then(visit(st, expr.left, ctx), LAMBDA l :
    Then(visit(l.st, expr.right, l.ctx), LAMBDA r :
    Visited(l.var, r.st, emit(r.ctx, Copy(r.var, l.var)))))

visit_Or(st, expr, ctx) ==
    With(new_label(ctx, "or_right"), LAMBDA l_right :
    With(new_label(l_right.ctx, "or_end"), LAMBDA l_end :
    With(new_label(l_end.ctx, "or_skip"), LAMBDA l_skip :
    Then(visit(st, expr.left, l_skip.ctx), LAMBDA l :
    With(emit(emit(l.ctx, CondJump(l.var, l_skip.label, l_right.label)),
              Label(l_right.label)), LAMBDA c1 :
    Then(visit(l.st, expr.right, c1), LAMBDA r :
    With(new_var(r.ctx), LAMBDA res :
    With(emit(emit(res.ctx, Copy(r.var, res.var)), Jump(l_end.label)), LAMBDA c2 :
    With(emit(emit(emit(c2, Label(l_skip.label)), LoadBoolConst(TRUE, res.var)),
              Jump(l_end.label)), LAMBDA c3 :
    Visited(res.var, r.st, emit(c3, Label(l_end.label))))))))))))

visit_And(st, expr, ctx) ==
    With(new_label(ctx, "and_right"), LAMBDA l_right :
    With(new_label(l_right.ctx, "and_end"), LAMBDA l_end :
    With(new_label(l_end.ctx, "and_skip"), LAMBDA l_skip :
    Then(visit(st, expr.left, l_skip.ctx), LAMBDA l :
    With(emit(emit(l.ctx, CondJump(l.var, l_right.label, l_skip.label)),
              Label(l_right.label)), LAMBDA c1 :
    Then(visit(l.st, expr.right, c1), LAMBDA r :
    With(new_var(r.ctx), LAMBDA res :
    With(emit(emit(res.ctx, Copy(r.var, res.var)), Jump(l_end.label)), LAMBDA c2 :
    With(emit(emit(c2, Label(l_skip.label)), LoadBoolConst(FALSE, res.var)), LAMBDA c3 :
    Visited(res.var, r.st, emit(c3, Label(l_end.label))))))))))))

visit_BinaryOp(st, expr, ctx) ==
    IF expr.op = "=" THEN visit_Assignment(st, expr, ctx)
    ELSE IF expr.op = "or" THEN visit_Or(st, expr, ctx)
    ELSE IF expr.op = "and" THEN visit_And(st, expr, ctx)
    ELSE With(require(st, expr.op), LAMBDA var_op :
         IF ~var_op.found THEN VisitRaised("KeyError", st, ctx) ELSE
         Then(visit(st, expr.left, ctx), LAMBDA l :
         Then(visit(l.st, expr.right, l.ctx), LAMBDA r :
         With(new_var(r.ctx), LAMBDA res :
         Visited(res.var, r.st,
                 emit(res.ctx, Call(var_op.var, <<l.var, r.var>>, res.var)))))))

visit_IfThen(st, expr, ctx) ==
    With(new_label(ctx, "then"), LAMBDA l_then :
    With(new_label(l_then.ctx, "if_end"), LAMBDA l_end :
    Then(visit(st, expr.condition, l_end.ctx), LAMBDA c :
    With(emit(emit(c.ctx, CondJump(c.var, l_then.label, l_end.label)),
              Label(l_then.label)), LAMBDA c1 :
    Then(visit(c.st, expr.then_branch, c1), LAMBDA th :
    Visited(var_unit, th.st, emit(th.ctx, Label(l_end.label))))))))

visit_IfThenElse(st, expr, ctx) ==
    With(new_label(ctx, "then"), LAMBDA l_then :
    With(new_label(l_then.ctx, "else"), LAMBDA l_else :
    With(new_label(l_else.ctx, "if_end"), LAMBDA l_end :
    Then(visit(st, expr.condition, l_end.ctx), LAMBDA c :
    With(emit(c.ctx, CondJump(c.var, l_then.label, l_else.label)), LAMBDA c1 :
    With(new_var(c1), LAMBDA res :
    Then(visit(c.st, expr.then_branch, emit(res.ctx, Label(l_then.label))), LAMBDA th :
    With(emit(emit(emit(th.ctx, Copy(th.var, res.var)), Jump(l_end.label)),
              Label(l_else.label)), LAMBDA c2 :
    Then(visit(th.st, expr.else_branch, c2), LAMBDA el :
    Visited(res.var, el.st,
            emit(emit(el.ctx, Copy(el.var, res.var)), Label(l_end.label))))))))))))

visit_WhileExpr(st, expr, ctx) ==
    With(new_label(ctx, "while_start"), LAMBDA l_start :
    With(emit(l_start.ctx, Label(l_start.label)), LAMBDA c0 :
    With(new_label(c0, "while_body"), LAMBDA l_body :
    With(new_label(l_body.ctx, "while_end"), LAMBDA l_end :
    Then(visit(st, expr.condition, l_end.ctx), LAMBDA c :
    With(emit(emit(c.ctx, CondJump(c.var, l_body.label, l_end.label)),
              Label(l_body.label)), LAMBDA c1 :
    Then(visit(c.st, expr.body, c1), LAMBDA b :
    Visited(var_unit, b.st,
            emit(emit(b.ctx, Jump(l_start.label)), Label(l_end.label))))))))))

\* [visit(st, arg) for arg in expr.arguments]
visit_arguments(st, arguments, i, var_args, ctx) ==
    IF i > Len(arguments)
    THEN [exc |-> "", var_args |-> var_args, st |-> st, ctx |-> ctx]
    ELSE With(visit(st, arguments[i], ctx), LAMBDA arg :
         IF arg.exc # ""
         THEN [exc |-> arg.exc, var_args |-> var_args, st |-> arg.st, ctx |-> arg.ctx]
         ELSE visit_arguments(arg.st, arguments, i + 1, Append(var_args, arg.var),
                              arg.ctx))

visit_FunctionExpr(st, expr, ctx) ==
    Then(visit(st, expr.function_name, ctx), LAMBDA var_fun :
    With(visit_arguments(var_fun.st, expr.arguments, 1, <<>>, var_fun.ctx), LAMBDA args :
    IF args.exc # "" THEN VisitRaised(args.exc, args.st, args.ctx) ELSE
    With(new_var(args.ctx), LAMBDA res :
    Visited(res.var, args.st,
            emit(res.ctx, Call(var_fun.var, args.var_args, res.var))))))

\* for stmt in expr.statements: last_var = visit(block_st, stmt)
visit_statements(st, statements, i, last_var, ctx) ==
    IF i > Len(statements) THEN Visited(last_var, st, ctx)
    ELSE Then(visit(st, statements[i], ctx), LAMBDA stmt :
         visit_statements(stmt.st, statements, i + 1, stmt.var, stmt.ctx))

visit_BlockExpr(st, expr, ctx) ==
    With(visit_statements(Append(st, EmptyFrame), expr.statements, 1, var_unit, ctx),
         LAMBDA block :
    With(SubSeq(block.st, 1, Len(st)), LAMBDA st1 :
    IF block.exc # "" THEN VisitRaised(block.exc, st1, block.ctx)
    ELSE Visited(IF expr.type = Unit THEN var_unit ELSE block.var, st1, block.ctx)))

\* a declaration that looks the name up only after lowering its initializer
visit_VarExpr_after_initializer(st, expr, ctx) ==
    IF expr.name.k # "str" THEN VisitRaised("TypeError", st, ctx)
    ELSE Then(visit(st, expr.initializer, ctx), LAMBDA init :
         IF expr.name.s \in DOMAIN init.st[Len(init.st)]
         THEN VisitRaised("Exception", init.st, init.ctx)
         ELSE With(new_var(init.ctx), LAMBDA var_a :
              Visited(var_unit, add_local(init.st, expr.name.s, var_a.var),
                      emit(var_a.ctx, Copy(init.var, var_a.var)))))

\* `expr.name in st.table` hashes the name: a node (dataclass with eq) is unhashable
visit_VarExpr(st, expr, ctx) ==
    IF expr.name.k # "str" THEN VisitRaised("TypeError", st, ctx)
    ELSE IF expr.name.s \in DOMAIN st[Len(st)] THEN VisitRaised("Exception", st, ctx)
    ELSE Then(visit(st, expr.initializer, ctx), LAMBDA init :
         With(new_var(init.ctx), LAMBDA var_a :
         Visited(var_unit, add_local(init.st, expr.name.s, var_a.var),
                 emit(var_a.ctx, Copy(init.var, var_a.var)))))

visit(st, expr, ctx) ==
    CASE expr.k = "Literal" -> visit_Literal(st, expr, ctx)
      [] expr.k = "Identifier" -> visit_Identifier(st, expr, ctx)
      [] expr.k = "UnaryOp" -> visit_UnaryOp(st, expr, ctx)
      [] expr.k = "BinaryOp" -> visit_BinaryOp(st, expr, ctx)
      [] expr.k = "IfThenElse" ->
            IF expr.else_branch = None THEN visit_IfThen(st, expr, ctx)
            ELSE visit_IfThenElse(st, expr, ctx)
      [] expr.k = "WhileExpr" -> visit_WhileExpr(st, expr, ctx)
      [] expr.k = "FunctionExpr" -> visit_FunctionExpr(st, expr, ctx)
      [] expr.k = "BlockExpr" -> visit_BlockExpr(st, expr, ctx)
      [] expr.k = "VarExpr" -> visit_VarExpr(st, expr, ctx)
      [] OTHER -> VisitRaised("Exception", st, ctx)

root_symtab(names) == << [n \in names |-> n] >>

\* the call appended after the root has been lowered
final_print(root_expr, var_final_result, ctx) ==
    IF root_expr.type = IntType
    THEN LET fresh == new_var(ctx)
         IN  emit(fresh.ctx, Call("print_int", <<var_final_result>>, fresh.var))
    ELSE IF root_expr.type = Bool
    THEN LET fresh == new_var(ctx)
         IN  emit(fresh.ctx, Call("print_bool", <<var_final_result>>, fresh.var))
    ELSE ctx

\* generate_ir(reserved_names, root_expr): the list, or the exception raised
generate_ir(names, root_expr) ==
    LET root == visit(root_symtab(names), root_expr, NewContext)
    IN  IF root.exc # "" THEN [exc |-> root.exc, ins |-> <<>>]
        ELSE [exc |-> "", ins |-> final_print(root_expr, root.var, root.ctx).ins]

-----------------------------------------------------------------------------
(* compiler/assembly_generator.py.  The output is the sequence of emitted   *)
(* instruction lines; the comment lines ("# ...") and the layout (blank     *)
(* lines, trailing blanks) of the emitted text are left out.                *)

binary_operator_names ==
    {"or", "and", "==", "!=", "<", "<=", ">", ">=", "+", "-", "*", "/", "%"}

\* the IRVar-valued fields of an instruction, in dataclass field order (a Label
\* held by Jump or CondJump is no IRVar)
ir_variables_of(insn) ==
    CASE insn.op \in {"LoadIntConst", "LoadBoolConst"} -> <<insn.dest>>
      [] insn.op = "Copy" -> <<insn.source, insn.dest>>
      [] insn.op = "Call" -> <<insn.fun>> \o insn.args \o <<insn.dest>>
      [] insn.op = "CondJump" -> <<insn.cond>>
      [] OTHER -> <<>>

\* an add that appends without looking at result_set
add_all_repeated(values) == values

\* add(v) for the values in the order they are met: v is appended when
\* result_set, the values met before it, does not hold it
add_all(values) ==
    LET added == SelectSeq([p \in 1..Len(values) |-> p],
                           LAMBDA p : values[p] \notin {values[q] : q \in 1..(p - 1)})
    IN  [k \in 1..Len(added) |-> values[added[k]]]

\* the two loops, over the instructions lo..hi and over the fields of each:
\* the values handed to add, in order
RECURSIVE get_all_ir_variables_from(_, _, _)
get_all_ir_variables_from(instructions, lo, hi) ==
    IF lo > hi THEN <<>>
    ELSE IF lo = hi THEN ir_variables_of(instructions[lo])
    ELSE get_all_ir_variables_from(instructions, lo, (lo + hi) \div 2)
         \o get_all_ir_variables_from(instructions, (lo + hi) \div 2 + 1, hi)

get_all_ir_variables(instructions) ==
    add_all(get_all_ir_variables_from(instructions, 1, Len(instructions)))

\* Locals(variables): _var_to_location and _stack_used
Locals(variables) ==
    [var_to_location |->
         [v \in {variables[i] : i \in 1..Len(variables)} |->
             "-" \o ToString(8 * (CHOOSE i \in 1..Len(variables) : variables[i] = v))
                 \o "(%rbp)"],
     stack_used |-> Len(variables) * 8]

get_ref(locals, v) == locals.var_to_location[v]

argument_registers == <<"%rdi", "%rsi", "%rdx", "%rcx", "%r8", "%r9">>

Emitted(lines) == [exc |-> "", lines |-> lines]
EmitRaised(exc) == [exc |-> exc, lines |-> <<>>]

set_instruction(name) ==
    CASE name = "==" -> "sete %al" [] name = "!=" -> "setne %al"
      [] name = "<" -> "setl %al" [] name = "<=" -> "setle %al"
      [] name = ">" -> "setg %al" [] name = ">=" -> "setge %al"

\* the lines of a binary operator, after `movq left, %rax`
binary_operator_lines(name, right) ==
    CASE name = "+" -> <<"addq " \o right \o ", %rax">>
      [] name = "-" -> <<"subq " \o right \o ", %rax">>
      [] name = "*" -> <<"imulq " \o right \o ", %rax">>
      [] name = "/" -> <<"cqto", "idivq " \o right>>
      [] name = "%" -> <<"cqto", "idivq " \o right, "movq %rdx, %rax">>
      [] name \in {"==", "!=", "<", "<=", ">", ">="} ->
            <<"cmpq " \o right \o ", %rax", set_instruction(name), "movzbq %al, %rax">>
      [] name = "and" -> <<"andq " \o right \o ", %rax">>
      [] name = "or" -> <<"orq " \o right \o ", %rax">>

assemble_Call(insn, locals) ==
    IF Len(insn.args) > MaxArguments THEN EmitRaised("AssertionError") ELSE
    LET marshal == [i \in 1..Len(insn.args) |->
                       "movq " \o get_ref(locals, insn.args[i]) \o ", "
                           \o argument_registers[i]]
        store == <<"movq %rax, " \o get_ref(locals, insn.dest)>>
    IN  IF insn.fun \in {"unary_-", "unary_not", "print_int", "print_bool"}
           /\ Len(insn.args) = 0
        THEN EmitRaised("IndexError")
        ELSE IF insn.fun = "unary_-"
        THEN Emitted(marshal \o <<"movq " \o get_ref(locals, insn.args[1]) \o ", %rax",
                                  "negq %rax">> \o store)
        ELSE IF insn.fun = "unary_not"
        THEN Emitted(marshal \o <<"movq " \o get_ref(locals, insn.args[1]) \o ", %rax",
                                  "xorq $1, %rax">> \o store)
        ELSE IF insn.fun = "print_int"
        THEN Emitted(marshal \o <<"movq " \o get_ref(locals, insn.args[1]) \o ", %rdi",
                                  "callq print_int">> \o store)
        ELSE IF insn.fun = "print_bool"
        THEN Emitted(marshal \o <<"subq $8, %rsp",
                                  "movq " \o get_ref(locals, insn.args[1]) \o ", %rdi",
                                  "callq print_bool", "addq $8, %rsp">> \o store)
        ELSE IF insn.fun = "read_int"
        THEN Emitted(marshal \o <<"subq $8, %rsp", "callq read_int", "addq $8, %rsp">>
                             \o store)
        ELSE IF insn.fun \in binary_operator_names
        THEN IF Len(insn.args) # 2 THEN EmitRaised("AssertionError")
             ELSE Emitted(marshal
                          \o <<"movq " \o get_ref(locals, insn.args[1]) \o ", %rax">>
                          \o binary_operator_lines(insn.fun, get_ref(locals, insn.args[2]))
                          \o store)
        ELSE Emitted(marshal \o <<"movq " \o get_ref(locals, insn.fun) \o ", %rax",
                                  "call *%rax">> \o store)

\* 2**31
TwoTo31 == Wide(1, -2147483647 - 1)

\* -2**31 <= value <= 2**31
fits_signed_32_inclusive(value) ==
    int_le(PyInt(-2147483647 - 1), value) /\ int_le(value, TwoTo31)

\* -2**31 <= value < 2**31
fits_signed_32(value) ==
    int_le(PyInt(-2147483647 - 1), value) /\ int_lt(value, TwoTo31)

assemble(insn, locals) ==
    CASE insn.op = "Label" -> Emitted(<<".L" \o insn.name \o ":">>)
      [] insn.op = "LoadIntConst" ->
            IF fits_signed_32(insn.value)
            THEN Emitted(<<"movq $" \o int_str(insn.value) \o ", "
                               \o get_ref(locals, insn.dest)>>)
            ELSE Emitted(<<"movabsq $" \o int_str(insn.value) \o ", %rax",
                           "movq %rax, " \o get_ref(locals, insn.dest)>>)
      [] insn.op = "LoadBoolConst" ->
            Emitted(<<"movq $" \o (IF insn.value THEN "1" ELSE "0") \o ", "
                          \o get_ref(locals, insn.dest)>>)
      [] insn.op = "Jump" -> Emitted(<<"jmp .L" \o insn.label>>)
      [] insn.op = "Copy" ->
            IF insn.source \in {"print_int", "print_bool", "read_int"}
            THEN Emitted(<<"movq $" \o insn.source \o ", %rax",
                           "movq %rax, " \o get_ref(locals, insn.dest)>>)
            ELSE Emitted(<<"movq " \o get_ref(locals, insn.source) \o ", %rax",
                           "movq %rax, " \o get_ref(locals, insn.dest)>>)
      [] insn.op = "CondJump" ->
            Emitted(<<"cmpq $0, " \o get_ref(locals, insn.cond),
                      "jne .L" \o insn.then_label, "jmp .L" \o insn.else_label>>)
      [] insn.op = "Call" -> assemble_Call(insn, locals)

\* for insn in instructions: the lines of the instructions lo..hi in order, or
\* the exception the first failing one raises
RECURSIVE assemble_all(_, _, _, _)
assemble_all(instructions, lo, hi, locals) ==
    IF lo > hi THEN Emitted(<<>>)
    ELSE IF lo = hi THEN assemble(instructions[lo], locals)
    ELSE Then(assemble_all(instructions, lo, (lo + hi) \div 2, locals), LAMBDA head :
         Then(assemble_all(instructions, (lo + hi) \div 2 + 1, hi, locals), LAMBDA rest :
         Emitted(head.lines \o rest.lines)))

prologue(locals) ==
    <<".extern print_int", ".extern print_bool", ".extern read_int", ".section .text",
      ".global main", ".type main, @function", "main:", "pushq %rbp", "movq %rsp, %rbp">>
    \o (IF locals.stack_used > 0
        THEN <<"subq $" \o ToString(locals.stack_used) \o ", %rsp">>
        ELSE <<>>)

epilogue == <<"movq $0, %rax", "movq %rbp, %rsp", "popq %rbp", "ret">>

generate_assembly(instructions) ==
    LET locals == Locals(get_all_ir_variables(instructions))
        body == assemble_all(instructions, 1, Len(instructions), locals)
    IN  IF body.exc # "" THEN body
        ELSE Emitted(prologue(locals) \o body.lines \o epilogue)

-----------------------------------------------------------------------------
(* compiler/interpreter.py.  A SymTab chain is the sequence of its frames,  *)
(* outermost first.  What a run can read and change besides the chain (the  *)
(* lines waiting on standard input, the lines printed) travels with it in   *)
(* the record st.  A built-in function is known by the global name it is    *)
(* defined under.                                                           *)

Function(name) == [py |-> "function", name |-> name]

\* SymTab(parent=env)
SymTab_new(parent) == Append(parent, EmptyFrame)

SymTab_define(env, name, value) ==
    [env EXCEPT ![Len(env)] = (name :> value) @@ @]

RECURSIVE SymTab_lookup(_, _)
SymTab_lookup(env, name) ==
    IF env = <<>> THEN [found |-> FALSE, value |-> None]
    ELSE IF name \in DOMAIN env[Len(env)]
    THEN [found |-> TRUE, value |-> env[Len(env)][name]]
    ELSE SymTab_lookup(SubSeq(env, 1, Len(env) - 1), name)

\* an assign that writes the frame it is called on
SymTab_assign_here(env, name, value) ==
    [found |-> TRUE, env |-> [env EXCEPT ![Len(env)] = (name :> value) @@ @]]

RECURSIVE SymTab_assign(_, _, _)
SymTab_assign(env, name, value) ==
    IF env = <<>> THEN [found |-> FALSE, env |-> env]
    ELSE IF name \in DOMAIN env[Len(env)]
    THEN [found |-> TRUE, env |-> [env EXCEPT ![Len(env)][name] = value]]
    ELSE LET parent == SymTab_assign(SubSeq(env, 1, Len(env) - 1), name, value)
         IN  [found |-> parent.found, env |-> Append(parent.env, env[Len(env)])]

setup_global_env ==
    << [n \in {"+", "-", "*", "/", "%", "==", "!=", "<", "<=", ">", ">=",
               "unary_-", "unary_not", "print_int", "print_bool", "read_int"}
           |-> Function(n)]
       @@ ("true" :> PyBool(TRUE)) @@ ("false" :> PyBool(FALSE))
       @@ ("Int" :> PyStr("Int")) @@ ("Bool" :> PyStr("Bool")) @@ ("Unit" :> PyStr("Unit")) >>

\* isinstance(x, int), isinstance(x, bool), callable(x)
is_int(x) == "py" \in DOMAIN x /\ x.py \in {"int", "bool"}
is_bool(x) == "py" \in DOMAIN x /\ x.py = "bool"
callable(x) == "py" \in DOMAIN x /\ x.py = "function"

\* the truth value Python gives an object in a condition
truthy(x) ==
    IF is_bool(x) THEN x.v # 0
    ELSE IF is_int(x) THEN x # PyInt(0)
    ELSE IF callable(x) THEN TRUE
    ELSE IF x = None THEN FALSE
    ELSE x.s # ""

\* str(x) as print writes it
str(x) ==
    IF is_bool(x) THEN (IF x.v = 1 THEN "True" ELSE "False")
    ELSE IF is_int(x) THEN int_str(x)
    ELSE IF callable(x) THEN "<function>"
    ELSE IF x = None THEN "None"
    ELSE x.s

\* a // b and a % b of Python, for b # 0
floordiv(a, b) == IF b > 0 THEN a \div b ELSE (0 - a) \div (0 - b)
modulo(a, b) == a - b * floordiv(a, b)

Ran(value, st) == [exc |-> "", value |-> value, st |-> st]
Threw(exc, st) == [exc |-> exc, value |-> None, st |-> st]

\* the arithmetic and the comparisons are followed on one-word numbers
OneWord(x) == is_bool(x) \/ x.k = 0

\* func(*args) for the functions of setup_global_env
invoke(func, args, st) ==
    CASE func.name \in {"+", "-", "*", "/", "%", "==", "!=", "<", "<=", ">", ">="} ->
            IF Len(args) # 2 THEN Threw("TypeError", st)
            ELSE IF ~(is_int(args[1]) /\ is_int(args[2])) THEN Threw("TypeError", st)
            ELSE IF ~(OneWord(args[1]) /\ OneWord(args[2]))
            THEN Threw("not followed further", st)
            ELSE (CASE func.name = "+" ->
                        IF is_bool(args[1]) \/ is_bool(args[2]) THEN Threw("TypeError", st)
                        ELSE Ran(PyInt(args[1].v + args[2].v), st)
                   [] func.name = "-" -> Ran(PyInt(args[1].v - args[2].v), st)
                   [] func.name = "*" -> Ran(PyInt(args[1].v * args[2].v), st)
                   [] func.name = "/" ->
                        IF args[2].v = 0 THEN Threw("ZeroDivisionError", st)
                        ELSE Ran(PyInt(floordiv(args[1].v, args[2].v)), st)
                   [] func.name = "%" ->
                        IF args[2].v = 0 THEN Threw("ZeroDivisionError", st)
                        ELSE Ran(PyInt(modulo(args[1].v, args[2].v)), st)
                   [] func.name = "==" -> Ran(PyBool(args[1].v = args[2].v), st)
                   [] func.name = "!=" -> Ran(PyBool(args[1].v # args[2].v), st)
                   [] func.name = "<" -> Ran(PyBool(args[1].v < args[2].v), st)
                   [] func.name = "<=" -> Ran(PyBool(args[1].v <= args[2].v), st)
                   [] func.name = ">" -> Ran(PyBool(args[1].v > args[2].v), st)
                   [] func.name = ">=" -> Ran(PyBool(args[1].v >= args[2].v), st))
      [] func.name = "unary_-" ->
            IF Len(args) # 1 THEN Threw("TypeError", st)
            ELSE IF is_int(args[1]) /\ ~is_bool(args[1]) THEN Ran(int_neg(args[1]), st)
            ELSE Threw("TypeError", st)
      [] func.name = "unary_not" ->
            IF Len(args) # 1 THEN Threw("TypeError", st)
            ELSE IF is_bool(args[1]) THEN Ran(PyBool(args[1].v = 0), st)
            ELSE Threw("TypeError", st)
      [] func.name = "print_int" ->
            IF Len(args) # 1 THEN Threw("TypeError", st)
            ELSE Ran(None, [st EXCEPT !.out = Append(@, str(args[1]))])
      [] func.name = "print_bool" ->
            IF Len(args) # 1 THEN Threw("TypeError", st)
            ELSE Ran(None, [st EXCEPT !.out = Append(@, IF truthy(args[1]) THEN "true" ELSE "false")])
      [] func.name = "read_int" ->
            IF Len(args) # 0 THEN Threw("TypeError", st)
            ELSE IF st.inp = <<>> THEN Threw("EOFError", st)
            ELSE Ran(PyInt(Head(st.inp)), [st EXCEPT !.inp = Tail(@)])

\* a while loop is followed for at most MaxIterations rounds
MaxIterations == 3

RECURSIVE interpret(_, _)
RECURSIVE interpret_arguments(_, _, _, _)
RECURSIVE interpret_statements(_, _, _, _)
RECURSIVE interpret_WhileExpr(_, _, _, _)

interpret_Identifier(node, st) ==
    IF SymTab_lookup(st.env, node.name).found
    THEN Ran(SymTab_lookup(st.env, node.name).value, st)
    ELSE Threw("NameError", st)

\* func = env.lookup(name); the exception not_callable when it is no function
apply(name, not_callable, args, st) ==
    IF ~SymTab_lookup(st.env, name).found THEN Threw("NameError", st)
    ELSE IF ~callable(SymTab_lookup(st.env, name).value) THEN Threw(not_callable, st)
    ELSE invoke(SymTab_lookup(st.env, name).value, args, st)

interpret_UnaryOp(node, st) ==
    Then(interpret(node.operand, st), LAMBDA operand :
    apply("unary_" \o node.op, "TypeError", <<operand.value>>, operand.st))

interpret_Or(node, st) ==
    Then(interpret(node.left, st), LAMBDA left :
    IF ~is_bool(left.value) THEN Threw("TypeError", left.st)
    ELSE IF left.value = PyBool(TRUE) THEN Ran(PyBool(TRUE), left.st)
    ELSE interpret(node.right, left.st))

interpret_And(node, st) ==
    Then(interpret(node.left, st), LAMBDA left :
    IF ~is_bool(left.value) THEN Threw("TypeError", left.st)
    ELSE IF left.value = PyBool(FALSE) THEN Ran(PyBool(FALSE), left.st)
    ELSE interpret(node.right, left.st))

interpret_Assignment(node, st) ==
    IF node.left.k # "Identifier" THEN Threw("TypeError", st)
    ELSE Then(interpret(node.right, st), LAMBDA right :
         IF SymTab_assign(right.st.env, node.left.name, right.value).found
         THEN Ran(right.value,
                  [right.st EXCEPT !.env = SymTab_assign(@, node.left.name, right.value).env])
         ELSE Threw("NameError", right.st))

interpret_BinaryOp(node, st) ==
    Then(interpret(node.left, st), LAMBDA left :
    Then(interpret(node.right, left.st), LAMBDA right :
    apply(node.op, "TypeError", <<left.value, right.value>>, right.st)))

interpret_IfThenElse(node, st) ==
    Then(interpret(node.condition, st), LAMBDA cond :
    IF ~is_bool(cond.value) THEN Threw("TypeError", cond.st)
    ELSE IF cond.value = PyBool(TRUE) THEN interpret(node.then_branch, cond.st)
    ELSE IF node.else_branch = None THEN Ran(None, cond.st)
    ELSE interpret(node.else_branch, cond.st))

\* while interpret(node.condition, env): result = interpret(node.body, env).
\* A round that leaves the environment and the input as it found them is
\* repeated for ever: the call never returns.
interpret_WhileExpr(node, st, last, rounds) ==
    Then(interpret(node.condition, st), LAMBDA cond :
    IF ~truthy(cond.value) THEN Ran(last, cond.st)
    ELSE Then(interpret(node.body, cond.st), LAMBDA body :
         IF body.st.env = st.env /\ body.st.inp = st.inp THEN Threw("never returns", body.st)
         ELSE IF rounds = MaxIterations THEN Threw("not followed further", body.st)
         ELSE interpret_WhileExpr(node, body.st, body.value, rounds + 1)))

\* args = [interpret(arg, env) for arg in node.arguments]; value holds the list
interpret_arguments(arguments, i, args, st) ==
    IF i > Len(arguments) THEN Ran(args, st)
    ELSE Then(interpret(arguments[i], st), LAMBDA arg :
         interpret_arguments(arguments, i + 1, Append(args, arg.value), arg.st))

interpret_FunctionExpr(node, st) ==
    IF node.function_name.k # "Identifier" THEN Threw("AssertionError", st)
    ELSE IF ~SymTab_lookup(st.env, node.function_name.name).found THEN Threw("NameError", st)
    ELSE IF ~callable(SymTab_lookup(st.env, node.function_name.name).value)
    THEN Threw("NameError", st)
    ELSE Then(interpret_arguments(node.arguments, 1, <<>>, st), LAMBDA args :
         invoke(SymTab_lookup(st.env, node.function_name.name).value, args.value, args.st))

\* for stmt in node.statements: block_result = interpret(stmt, block_env)
interpret_statements(statements, i, block_result, st) ==
    IF i > Len(statements) THEN Ran(block_result, st)
    ELSE Then(interpret(statements[i], st), LAMBDA stmt :
         interpret_statements(statements, i + 1, stmt.value, stmt.st))

\* the frame of the block is dropped when the block is left, also by an exception
LeaveBlock(r, depth) == [r EXCEPT !.st.env = SubSeq(@, 1, depth)]

interpret_BlockExpr(node, st) ==
    LeaveBlock(interpret_statements(node.statements, 1, None,
                                    [st EXCEPT !.env = SymTab_new(@)]),
               Len(st.env))

interpret_VarExpr(node, st) ==
    IF node.name.k # "str" THEN Threw("AssertionError", st)
    ELSE Then(interpret(node.initializer, st), LAMBDA value :
         Ran(value.value, [value.st EXCEPT !.env = SymTab_define(@, node.name.s, value.value)]))

interpret(node, st) ==
    CASE node.k = "Literal" -> Ran(node.value, st)
      [] node.k = "Identifier" -> interpret_Identifier(node, st)
      [] node.k = "UnaryOp" -> interpret_UnaryOp(node, st)
      [] node.k = "BinaryOp" /\ node.op = "or" -> interpret_Or(node, st)
      [] node.k = "BinaryOp" /\ node.op = "and" -> interpret_And(node, st)
      [] node.k = "BinaryOp" /\ node.op = "=" -> interpret_Assignment(node, st)
      [] node.k = "BinaryOp" /\ node.op \notin {"or", "and", "="} -> interpret_BinaryOp(node, st)
      [] node.k = "IfThenElse" -> interpret_IfThenElse(node, st)
      [] node.k = "WhileExpr" -> interpret_WhileExpr(node, st, None, 1)
      [] node.k = "FunctionExpr" -> interpret_FunctionExpr(node, st)
      [] node.k = "BlockExpr" -> interpret_BlockExpr(node, st)
      [] node.k = "VarExpr" -> interpret_VarExpr(node, st)
      [] OTHER -> Threw("NotImplementedError", st)

-----------------------------------------------------------------------------
(* Inputs.  Token lists: every list of at most MaxTokens tokens over        *)
(* Alphabet, and the programs of the families below.                        *)

MaxTokens == 3
MaxStatements == 2
MaxParams == 2
MaxCallArgs == 7
MaxBlockStatements == 3
MaxOperands == 3

Toks(texts) == [i \in 1..Len(texts) |-> Token(texts[i])]

RECURSIVE Flatten(_)
Flatten(seqs) == IF seqs = <<>> THEN <<>> ELSE Head(seqs) \o Flatten(Tail(seqs))

SeqsUpTo(S, n) == UNION {[1..m -> S] : m \in 0..n}

Alphabet == {"var", "x", "1", "=", "(", ")", "{", "}", ";", "+", "if", "then", "true", "-"}

ShortTexts == SeqsUpTo(Alphabet, MaxTokens)

StatementTexts ==
    { <<"true">>, <<"1">>, <<"x", "=", "1">>, <<"print_int", "(", "1", ")">>,
      <<"if", "true", "then", "1">>, <<"if", "true", "then", "1", "else", "2">>,
      <<"while", "true", "do", "1">>, <<"{", "1", "}">>, <<"{", "1", ";", "}">>,
      <<"var", "x", "=", "1">>, <<"1", "+", "2">> }

\* statements each followed by ";" or by nothing
StatementListTexts ==
    { Flatten(program) : program \in
          SeqsUpTo({stmt \o sep : stmt \in StatementTexts, sep \in {<<>>, <<";">>}},
                   MaxStatements) }

BlockTexts == { <<"{">> \o body \o <<"}">> : body \in StatementListTexts }

TypeAnnotationTexts ==
    { <<>>, <<":", "Int">>, <<":", "T">> }
    \cup { <<":", "(">> \o params \o <<")", "=", ">", ret>> :
              params \in { <<>> } \cup
                  { <<"Int">> \o Flatten([i \in 1..n |-> <<",", "Bool">>]) :
                        n \in 0..(MaxParams - 1) },
              ret \in { "Unit", "Int" } }

VarTexts ==
    { <<"var", name>> \o annotation \o <<"=">> \o init :
          name \in {"x", "f"}, annotation \in TypeAnnotationTexts,
          init \in { <<"1">>, <<"print_int">>, <<"E">> } }

VarStatementText == <<"var", "x", "=", "1">>

\* a declaration as a sub-expression
VarContextTexts ==
    { pre \o VarStatementText \o post : <<pre, post>> \in
          { << <<"(">>, <<")">> >>, << <<"1", "+">>, <<>> >>, << <<"-">>, <<>> >>,
            << <<"not">>, <<>> >>, << <<"x", "=">>, <<>> >>,
            << <<"var", "y", "=">>, <<>> >>, << <<"var", "y", "=", "1", "+">>, <<>> >>,
            << <<"f", "(">>, <<")">> >>, << <<"f", "(", "1", "+">>, <<")">> >>,
            << <<"f", "(", "1", ",">>, <<")">> >>,
            << <<"if">>, <<"then", "1">> >>, << <<"if", "1", "+">>, <<"then", "1">> >>,
            << <<"if", "true", "then">>, <<>> >>,
            << <<"if", "true", "then", "1", "+">>, <<>> >>,
            << <<"if", "true", "then", "1", "else">>, <<>> >>,
            << <<"if", "true", "then", "1", "else", "1", "+">>, <<>> >>,
            << <<"while">>, <<"do", "1">> >>, << <<"while", "true", "do">>, <<>> >>,
            << <<"while", "true", "do", "-">>, <<>> >>,
            << <<"{">>, <<"}">> >>, << <<"{", "1", ";">>, <<"}">> >>,
            << <<"1", ";">>, <<>> >>, << <<"{", "1", "+">>, <<"}">> >> } }

CallTexts ==
    { <<f, "(", ")">> : f \in {"print_int", "print_bool", "read_int", "or", "unary_not", "x"} }
    \cup { <<f, "(", a, ")">> :
              f \in {"print_int", "print_bool", "read_int", "or", "unary_not"},
              a \in {"1", "true"} }
    \cup { <<f, "(", a, ",", b, ")">> :
              f \in {"print_int", "or", "and"}, a \in {"1", "true"}, b \in {"1", "true"} }

\* operands joined by binary operators and assignments, without parentheses
ChainOperators ==
    {"or", "and", "==", "!=", "<", "<=", ">", ">=", "+", "-", "*", "/", "%", "="}

ChainOperand(i) == <<"1", "2", "3", "a", "b">>[i]

Chain(ops) ==
    <<ChainOperand(1)>> \o Flatten([i \in 1..Len(ops) |-> <<ops[i], ChainOperand(i + 1)>>])

OperatorChainTexts ==
    { Chain(ops) : ops \in UNION {[1..m -> ChainOperators] : m \in 1..(MaxOperands - 1)} }

\* true and false joined by or and and, without parentheses
MaxBoolOperands == 4
BoolChain(operands, ops) ==
    <<operands[1]>> \o Flatten([i \in 1..Len(ops) |-> <<ops[i], operands[i + 1]>>])

BoolChainTexts ==
    UNION { { BoolChain(operands, ops) : operands \in [1..m -> {"true", "false"}],
                                          ops \in [1..(m - 1) -> {"or", "and"}] } :
            m \in 2..MaxBoolOperands }

\* a block that declares x, runs an inner block and ends with x
ScopeTexts ==
    { <<"{", "var", "x", "=", "1", ";", "{">> \o inner \o <<";", "x", "}", ";", "x", "}">> :
          inner \in { <<"var", "x", "=", "2">>, <<"var", "y", "=", "2">>, <<"x", "=", "2">> } }

\* integer literals on both sides of 2^31
BoundaryTexts ==
    { <<"2147483647">>, <<"2147483648">>, <<"-", "2147483647">>, <<"-", "2147483648">>,
      <<"print_int", "(", "2147483648", ")">>,
      <<"{", "2147483648", ";", "2147483647", "}">> }

\* source strings: every string of at most MaxSourceLength characters
MaxSourceLength == 4
SourceCharacters == {"a", "1", "=", "!", "/", "#", " ", "\n", "$", ";"}
SourceStrings == SeqsUpTo(SourceCharacters, MaxSourceLength)

SourceTexts ==
    ShortTexts \cup StatementListTexts \cup BlockTexts \cup VarTexts
    \cup VarContextTexts \cup CallTexts \cup OperatorChainTexts \cup ScopeTexts
    \cup BoundaryTexts \cup BoolChainTexts

-----------------------------------------------------------------------------
(* Inputs.  ASTs handed to typecheck directly, as the tests of the later    *)
(* stages and any caller of typecheck can build them.                       *)

AstAtoms ==
    { Literal(PyInt(1)), Literal(PyBool(TRUE)), Identifier("true"), Identifier("x"),
      Identifier("print_int") }

\* branches of a conditional: the atoms and three operators as values, two of
\* them of the same function type
AstBranches == AstAtoms \cup { Identifier("+"), Identifier("-"), Identifier("<") }

AstOperations ==
    { UnaryOp(op, a) : op \in {"-", "not"}, a \in AstAtoms }
    \cup { BinaryOp(a, op, b) : a \in AstAtoms, op \in {"+", "<", "==", "=", "or", "and"},
                                b \in AstAtoms }
    \cup { IfThenElse(c, a, b) : c \in AstAtoms, a \in AstBranches, b \in AstBranches \cup {None} }
    \cup { WhileExpr(c, a) : c \in AstAtoms, a \in AstAtoms }

AstCalls ==
    { FunctionExpr(Identifier(f), args) :
          f \in {"print_int", "read_int", "x", "true"},
          args \in SeqsUpTo({Literal(PyInt(1)), Identifier("true")}, MaxCallArgs) }

AstTypeAnnotations ==
    { None, Identifier("Int"), Identifier("Bool"),
      FunctionTypeExpr(Identifier("Unit"), PyList(<<Identifier("Int")>>)),
      FunctionTypeExpr(Identifier("Int"), None) }

AstDeclarations ==
    { VarExpr(PyStr(name), init, typed) :
          name \in {"x", "read_int", "and"},
          init \in { Literal(PyInt(1)), Identifier("true"), Identifier("print_int"),
                     Identifier("read_int"),
                     FunctionExpr(Identifier("read_int"), <<>>),
                     BinaryOp(Identifier("true"), "and", Identifier("true")),
                     IfThenElse(Identifier("true"), Literal(PyInt(1)), None) },
          typed \in AstTypeAnnotations }

AstStatements ==
    { Literal(PyInt(1)), Identifier("x"),
      VarExpr(PyStr("x"), Literal(PyInt(1)), None),
      VarExpr(PyStr("x"), Identifier("true"), None),
      BinaryOp(Identifier("x"), "=", Literal(PyInt(1))),
      IfThenElse(Identifier("true"), Literal(PyInt(1)), None),
      IfThenElse(Identifier("true"), Identifier("x"), Literal(PyInt(1))),
      BinaryOp(Identifier("true"), "or", Identifier("x")),
      WhileExpr(Identifier("x"), Literal(PyInt(1))),
      FunctionExpr(Identifier("print_int"), <<Identifier("x")>>),
      FunctionExpr(Identifier("print_int"),
                   <<IfThenElse(Identifier("true"), Literal(PyInt(1)), None)>>),
      BlockExpr(<<VarExpr(PyStr("x"), Identifier("true"), None), Identifier("x")>>) }

AstBlocks ==
    { BlockExpr(statements) : statements \in SeqsUpTo(AstStatements, MaxBlockStatements) }

\* a block that declares x, runs an inner block and ends with x
AstScopes ==
    { BlockExpr(<<VarExpr(PyStr("x"), Literal(PyInt(1)), None),
                  BlockExpr(<<inner, Identifier(name)>>),
                  Identifier("x")>>) :
          inner \in { VarExpr(PyStr("x"), Literal(PyInt(2)), None),
                      VarExpr(PyStr("y"), Literal(PyInt(2)), None),
                      BinaryOp(Identifier("x"), "=", Literal(PyInt(2))) },
          name \in {"x", "y"} }

\* 2^31 - 1, 2^31, -2^31, -2^31 - 1 and -1
BoundaryValues ==
    { PyInt(2147483647), Wide(1, -2147483647 - 1), PyInt(-2147483647 - 1),
      Wide(-1, 2147483647), PyInt(-1) }

AstBoundaries ==
    { Literal(value) : value \in BoundaryValues }
    \cup { BlockExpr(<<Literal(low), Literal(high)>>) : low, high \in BoundaryValues }
    \cup { VarExpr(PyStr("x"), Literal(value), None) : value \in BoundaryValues }

\* assignments at the root, in a block, and in a block nested in the block
\* that declares the variable
AstAssignments ==
    { BinaryOp(Identifier(name), "=", Literal(PyInt(5))) : name \in {"x", "y", "z"} }
    \cup { BlockExpr(<<BinaryOp(Identifier(name), "=", Literal(PyInt(5))), Identifier(name)>>) :
               name \in {"x", "y", "z"} }
    \cup { BlockExpr(<<VarExpr(PyStr("x"), Literal(PyInt(1)), None),
                       BlockExpr(<<BinaryOp(Identifier(name), "=", Literal(PyInt(5)))>>),
                       Identifier("x")>>) : name \in {"x", "y", "z"} }

\* environments a caller of interpret can hold
MaxFrames == 2
EnvFrames == { [n \in names |-> PyInt(1)] : names \in SUBSET {"x", "y"} }
EnvChains ==
    { <<globals>> \o frames :
          globals \in { setup_global_env[1], ("x" :> PyInt(2)) @@ setup_global_env[1] },
          frames \in SeqsUpTo(EnvFrames, MaxFrames) }

\* a block that declares a name the globals hold, or x, and uses it
AstShadows ==
    { BlockExpr(<<VarExpr(PyStr(name), init, None),
                  IF printed THEN FunctionExpr(Identifier("print_int"), <<Identifier(name)>>)
                  ELSE Identifier(name)>>) :
          name \in {"read_int", "print_int", "x"},
          init \in { Literal(PyInt(1)), FunctionExpr(Identifier("read_int"), <<>>) },
          printed \in BOOLEAN }

AstInputs ==
    AstAtoms \cup AstOperations \cup AstCalls \cup AstDeclarations \cup AstBlocks
    \cup AstScopes \cup AstBoundaries \cup AstShadows

-----------------------------------------------------------------------------
(* The pipeline as a state machine: one action per stage.                   *)

NoResult == [of |-> "", exc |-> "", t |-> Unit]
NoFirst == [exc |-> "", t |-> Unit, node |-> None]
NoAsm == [exc |-> "", lines |-> <<>>]

\* an AST built by the caller, and an environment object of the caller: the
\* global frame, with or without a global x, under at most MaxFrames frames
InitEnv ==
    /\ source_text = <<>>
    /\ stage = "parsed"
    /\ tokens = <<>>
    /\ ast \in AstAssignments
    /\ tenv = setup_type_env
    /\ result = NoResult
    /\ first = NoFirst
    /\ ins = <<>>
    /\ ins2 = <<>>
    /\ asm = NoAsm
    /\ ienv \in EnvChains
    /\ stdin = <<2>>
    /\ stdout = <<>>
    /\ returned = None

\* a source text; nothing has run yet
InitText ==
    /\ source_text \in SourceStrings
    /\ stage = "text"
    /\ tokens = <<>>
    /\ ast = None
    /\ tenv = setup_type_env
    /\ result = NoResult
    /\ first = NoFirst
    /\ ins = <<>>
    /\ ins2 = <<>>
    /\ asm = NoAsm
    /\ ienv = setup_global_env
    /\ stdin = <<2>>
    /\ stdout = <<>>
    /\ returned = None

\* tokens = tokenize(source_code)
DoTokenize ==
    /\ stage = "text"
    /\ tokens' = tokenize(source_text)
    /\ stage' = "tokenized"
    /\ result' = [of |-> "tokenize", exc |-> "", t |-> Unit]
    /\ UNCHANGED <<source_text, ast, tenv, first, ins, ins2, asm, ienv, stdin, stdout, returned>>

SpecText == InitText /\ [][DoTokenize]_vars

\* a source has been tokenized; nothing has run yet
Init ==
    /\ source_text = <<>>
    /\ stage = "source"
    /\ tokens \in {Toks(texts) : texts \in SourceTexts}
    /\ ast = None
    /\ tenv = setup_type_env
    /\ result = NoResult
    /\ first = NoFirst
    /\ ins = <<>>
    /\ ins2 = <<>>
    /\ asm = NoAsm
    /\ ienv = setup_global_env
    /\ stdin = <<2>>
    /\ stdout = <<>>
    /\ returned = None

\* an AST built by the caller, and a fresh environment
InitAst ==
    /\ source_text = <<>>
    /\ stage = "parsed"
    /\ tokens = <<>>
    /\ ast \in AstInputs
    /\ tenv = setup_type_env
    /\ result = NoResult
    /\ first = NoFirst
    /\ ins = <<>>
    /\ ins2 = <<>>
    /\ asm = NoAsm
    /\ ienv = setup_global_env
    /\ stdin = <<2>>
    /\ stdout = <<>>
    /\ returned = None

\* expr = parse(tokens)
DoParse ==
    /\ stage = "source"
    /\ LET r == parse(tokens)
       IN  /\ stage' = IF r.ok THEN "parsed" ELSE "failed"
           /\ ast' = r.node
           /\ result' = [of |-> "parse", exc |-> r.msg, t |-> Unit]
    /\ UNCHANGED <<source_text, tokens, tenv, first, ins, ins2, asm, ienv, stdin, stdout, returned>>

\* interpret(expr, env), as the tests of the interpreter call it on what parse
\* returned or on an AST built by hand
DoInterpret ==
    /\ stage = "parsed"
    /\ LET r == interpret(ast, [env |-> ienv, inp |-> stdin, out |-> stdout])
       IN  /\ stage' = IF r.exc = "" THEN "interpreted" ELSE "failed"
           /\ returned' = r.value
           /\ ienv' = r.st.env
           /\ stdin' = r.st.inp
           /\ stdout' = r.st.out
           /\ result' = [of |-> "interpret", exc |-> r.exc, t |-> Unit]
    /\ UNCHANGED <<source_text, tokens, ast, tenv, first, ins, ins2, asm>>

\* typecheck(expr, env)
DoTypecheck ==
    /\ stage = "parsed"
    /\ LET r == typecheck(ast, tenv)
       IN  /\ stage' = IF r.exc = "" THEN "typed" ELSE "failed"
           /\ ast' = r.node
           /\ tenv' = r.env
           /\ result' = [of |-> "typecheck", exc |-> r.exc, t |-> r.t]
           /\ first' = [exc |-> r.exc, t |-> r.t, node |-> r.node]
    /\ UNCHANGED <<source_text, tokens, ins, ins2, asm, ienv, stdin, stdout, returned>>

\* typecheck(expr, env) once more, on the same AST object with the same env object
DoTypecheckAgain ==
    /\ stage = "typed"
    /\ LET r == typecheck(ast, tenv)
       IN  /\ stage' = "retyped"
           /\ ast' = r.node
           /\ tenv' = r.env
           /\ result' = [of |-> "typecheck", exc |-> r.exc, t |-> r.t]
    /\ UNCHANGED <<source_text, tokens, first, ins, ins2, asm, ienv, stdin, stdout, returned>>

\* ins = generate_ir(reserved_names, expr), on an AST that typechecked
DoGenerateIR ==
    /\ stage = "typed"
    /\ LET r == generate_ir(reserved_names, ast)
       IN  /\ stage' = IF r.exc = "" THEN "lowered" ELSE "failed"
           /\ ins' = r.ins
           /\ result' = [of |-> "generate_ir", exc |-> r.exc, t |-> Unit]
    /\ UNCHANGED <<source_text, tokens, ast, tenv, first, ins2, asm, ienv, stdin, stdout, returned>>

\* generate_ir(reserved_names, expr) called a second time on the same AST
DoGenerateIRAgain ==
    /\ stage = "lowered"
    /\ LET r == generate_ir(reserved_names, ast)
       IN  /\ stage' = "relowered"
           /\ ins2' = r.ins
           /\ result' = [of |-> "generate_ir", exc |-> r.exc, t |-> Unit]
    /\ UNCHANGED <<source_text, tokens, ast, tenv, first, ins, asm, ienv, stdin, stdout, returned>>

\* generate_assembly(ins)
DoGenerateAssembly ==
    /\ stage = "lowered"
    /\ LET r == generate_assembly(ins)
       IN  /\ stage' = IF r.exc = "" THEN "emitted" ELSE "failed"
           /\ asm' = r
           /\ result' = [of |-> "generate_assembly", exc |-> r.exc, t |-> Unit]
    /\ UNCHANGED <<source_text, tokens, ast, tenv, first, ins, ins2, ienv, stdin, stdout, returned>>

Next == DoParse \/ DoInterpret \/ DoTypecheck \/ DoGenerateIR \/ DoGenerateAssembly

Spec == Init /\ [][Next]_vars

NextAst ==
    \/ DoInterpret
    \/ DoTypecheck \/ DoTypecheckAgain \/ DoGenerateIR \/ DoGenerateIRAgain \/ DoGenerateAssembly

SpecAst == InitAst /\ [][NextAst]_vars

SpecEnv == InitEnv /\ [][DoInterpret]_vars

-----------------------------------------------------------------------------
(* Properties of the parser, over Spec.                                     *)

Last(seq) == seq[Len(seq)]
TextsOf(toks) == [i \in 1..Len(toks) |-> toks[i].text]

\* the whole token list is one brace block { ... }
WholeInputIsBraceBlock ==
    /\ Len(tokens) >= 2
    /\ tokens[1].text = "{"
    /\ parse_block(tokens, 1).ok
    /\ parse_block(tokens, 1).pos = Len(tokens) + 1

NonProducing(node) ==
    \/ node.k = "IfThenElse" /\ node.else_branch = None
    \/ node.k = "WhileExpr"

\* C1: a brace block whose last statement is followed by ";", or whose last
\* statement is an if-then without else or a while, is parsed to a BlockExpr
\* whose statements end with the synthetic Identifier("Unit").
C1_BlockEndsWithUnit ==
    (stage = "parsed" /\ WholeInputIsBraceBlock /\ ast.k = "BlockExpr")
    => ((\/ tokens[Len(tokens) - 1].text = ";"
         \/ ast.statements # <<>> /\ NonProducing(Last(ast.statements)))
        => (ast.statements # <<>> /\ Last(ast.statements) = Identifier("Unit")))

\* the token list starts with `var ID =` or `var ID : T =`
IsVarDeclaration ==
    /\ Len(tokens) >= 4
    /\ tokens[1].text = "var"
    /\ tokens[2].type = "identifier"
    /\ \/ tokens[3].text = "="
       \/ /\ Len(tokens) >= 6
          /\ tokens[3].text = ":"
          /\ tokens[4].type = "identifier"
          /\ tokens[5].text = "="

\* C2: for `var ID = E` and `var ID : T = E` parse returns a VarExpr whose name
\* is the string ID and whose typed field is None or Identifier(T), and
\* typecheck does not fail an assertion on it.
C2_VarNameIsString ==
    /\ (stage = "parsed" /\ IsVarDeclaration /\ ast.k = "VarExpr")
       => /\ ast.name = PyStr(tokens[2].text)
          /\ ast.typed = IF tokens[3].text = "=" THEN None
                         ELSE Identifier(tokens[4].text)
    /\ (result.of = "typecheck" /\ IsVarDeclaration)
       => result.exc # "AssertionError"

\* the nodes held by a field that is a node, a list of nodes, a string or None
NodesOf(value) ==
    IF value.k \in {"None", "str"} THEN <<>>
    ELSE IF value.k = "list" THEN value.items
    ELSE <<value>>

SubExpressions(node) ==
    CASE node.k = "UnaryOp" -> <<node.operand>>
      [] node.k = "BinaryOp" -> <<node.left, node.right>>
      [] node.k = "IfThenElse" ->
            <<node.condition, node.then_branch>> \o NodesOf(node.else_branch)
      [] node.k = "WhileExpr" -> <<node.condition, node.body>>
      [] node.k = "FunctionExpr" -> <<node.function_name>> \o node.arguments
      [] node.k = "BlockExpr" -> node.statements
      [] node.k = "FunctionTypeExpr" ->
            NodesOf(node.return_type) \o NodesOf(node.param_types)
      [] node.k = "VarExpr" ->
            NodesOf(node.name) \o <<node.initializer>> \o NodesOf(node.typed)
      [] OTHER -> <<>>

\* every VarExpr at or under node is where a statement is
RECURSIVE VarOnlyAsStatement(_, _)
VarOnlyAsStatement(node, is_statement) ==
    /\ node.k = "VarExpr" => is_statement
    /\ \A i \in 1..Len(SubExpressions(node)) :
          VarOnlyAsStatement(SubExpressions(node)[i], node.k = "BlockExpr")

\* C3: parse rejects var anywhere other than as a direct statement of a block
\* or at top level, so every VarExpr of a returned AST is a direct element of a
\* BlockExpr.statements or is the root.
C3_VarOnlyDirectlyInBlocks ==
    stage = "parsed" => VarOnlyAsStatement(ast, TRUE)

\* the token list is `var ID : ( T1 , ... , Tn ) = > R = E`
IsFunctionTypeDeclaration ==
    /\ TextsOf(tokens) \in VarTexts
    /\ tokens[4].text = "("

\* the position of the ")" that closes the parameter list
CloseOfParams == CHOOSE i \in 5..Len(tokens) : tokens[i].text = ")"

ParamsOfDeclaration ==
    [j \in 1..((CloseOfParams - 4) \div 2) |-> Identifier(tokens[3 + 2 * j].text)]

\* C4: for `var ID : (T1, ..., Tn) => R = E` parse returns a VarExpr whose typed
\* field is FunctionTypeExpr(return_type = Identifier(R), param_types =
\* [Identifier(T1), ..., Identifier(Tn)]), and param_types = None when the
\* parameter list is empty.
C4_FunctionTypeAnnotation ==
    (result.of = "parse" /\ IsFunctionTypeDeclaration)
    => /\ result.exc = ""
       /\ ast.k = "VarExpr"
       /\ ast.typed = FunctionTypeExpr(
                          Identifier(tokens[CloseOfParams + 3].text),
                          IF ParamsOfDeclaration = <<>> THEN None
                          ELSE PyList(ParamsOfDeclaration))

-----------------------------------------------------------------------------
(* Properties of the instruction list.                                      *)

LabelsNamed(name) == {i \in 1..Len(ins) : ins[i].op = "Label" /\ ins[i].name = name}

Targets(insn) ==
    CASE insn.op = "Jump" -> {insn.label}
      [] insn.op = "CondJump" -> {insn.then_label, insn.else_label}
      [] OTHER -> {}

\* C5: in every instruction list returned by generate_ir, each target of a
\* Jump or CondJump is the name of exactly one Label instruction of the list.
C5_JumpTargetsUnique ==
    stage = "lowered"
    => \A i \in 1..Len(ins) : \A target \in Targets(ins[i]) :
          Cardinality(LabelsNamed(target)) = 1

\* the IR variables an instruction reads
Reads(insn) ==
    CASE insn.op = "Copy" -> {insn.source}
      [] insn.op = "Call" -> {insn.fun} \cup {insn.args[j] : j \in 1..Len(insn.args)}
      [] insn.op = "CondJump" -> {insn.cond}
      [] OTHER -> {}

Writes(insn) ==
    IF insn.op \in {"LoadIntConst", "LoadBoolConst", "Copy", "Call"} THEN {insn.dest}
    ELSE {}

\* C6: in the instruction list of an AST that typechecked, every IR variable an
\* instruction reads is the dest of an earlier instruction or a reserved global.
C6_ReadsAreDefined ==
    stage = "lowered"
    => \A i \in 1..Len(ins) : \A v \in Reads(ins[i]) :
          \/ v \in reserved_names
          \/ \E j \in 1..(i - 1) : v \in Writes(ins[j])

\* C7: generate_assembly does not fail on the instruction list of a program
\* that passed tokenize, parse and typecheck.
C7_AssemblyNeverFails ==
    result.of = "generate_assembly" => result.exc = ""

-----------------------------------------------------------------------------
(* Properties of the type checker, over SpecAst.                            *)

\* the type typecheck gives a node that typechecks in the initial environment
\* whatever surrounds it: a literal or a name bound there
TypeOfAtom(node) ==
    IF node.k = "Literal" THEN (IF node.value.py = "bool" THEN Bool ELSE IntType)
    ELSE lookup(setup_type_env, node.name).t

IsAtom(node) ==
    \/ node.k = "Literal"
    \/ node.k = "Identifier" /\ lookup(setup_type_env, node.name).found

\* a reason other than the number of arguments for which typecheck rejects the
\* call: the callee is not bound to a function, or an argument that is paired
\* with a parameter is not an atom of the parameter's type
RejectedOtherwise(call) ==
    LET func_type == lookup(setup_type_env, call.function_name.name)
    IN  \/ ~func_type.found
        \/ func_type.t.k # "Fun"
        \/ \E i \in 1..Len(call.arguments) :
              /\ i <= Len(func_type.t.params)
              /\ \/ ~IsAtom(call.arguments[i])
                 \/ TypeOfAtom(call.arguments[i]) # func_type.t.params[i]

C9_RetypecheckIdempotent ==
    stage = "retyped"
    => /\ result.exc = ""
       /\ result.t = first.t
       /\ ast = first.node

\* the list ends with Call(printer, [v], fresh), fresh occurring nowhere else
EndsWithPrint(printer, v) ==
    /\ ins # <<>>
    /\ Last(ins).op = "Call"
    /\ Last(ins).fun = printer
    /\ Last(ins).args = <<v>>
    /\ Last(ins).dest # v
    /\ \A i \in 1..(Len(ins) - 1) :
          Last(ins).dest \notin Reads(ins[i]) \cup Writes(ins[i])

\* C10: the instruction list of generate_ir ends with Call(print_int, [v], fresh)
\* exactly when the root's type is Int and with Call(print_bool, [v], fresh)
\* exactly when it is Bool, and nothing is appended to the instructions of the
\* root for any other type; v is the variable the lowering of the root
\* returned and fresh a variable that occurs nowhere else in the list.
C10_FinalPrintByRootType ==
    stage = "lowered"
    => LET root == visit(root_symtab(reserved_names), ast, NewContext)
       IN  /\ EndsWithPrint("print_int", root.var) <=> ast.type = IntType
           /\ EndsWithPrint("print_bool", root.var) <=> ast.type = Bool
           /\ ast.type \notin {IntType, Bool} => ins = root.ctx.ins

\* everything of an instruction but the names of its variables and labels
ShapeOf(insn) ==
    CASE insn.op \in {"LoadIntConst", "LoadBoolConst"} -> <<insn.op, insn.value>>
      [] insn.op = "Call" -> <<insn.op, Len(insn.args)>>
      [] OTHER -> <<insn.op>>

\* the labels an instruction names, in field order
LabelsOf(insn) ==
    CASE insn.op = "Label" -> <<insn.name>>
      [] insn.op = "Jump" -> <<insn.label>>
      [] insn.op = "CondJump" -> <<insn.then_label, insn.else_label>>
      [] OTHER -> <<>>

\* the pairs (name in a, name in b) standing at the same place of two lists of
\* equal shape, the names of each instruction taken by NamesOf
PairedNames(a, b, NamesOf(_)) ==
    UNION { { <<NamesOf(a[i])[j], NamesOf(b[i])[j]>> : j \in 1..Len(NamesOf(a[i])) } :
            i \in 1..Len(a) }

\* the pairing is a one-to-one renaming that leaves the names of fixed alone
ConsistentRenaming(pairs, fixed) ==
    /\ \A p \in pairs : \A q \in pairs : (p[1] = q[1]) <=> (p[2] = q[2])
    /\ \A p \in pairs : (p[1] \in fixed \/ p[2] \in fixed) => p[1] = p[2]

EqualUpToRenaming(a, b) ==
    /\ Len(a) = Len(b)
    /\ \A i \in 1..Len(a) : ShapeOf(a[i]) = ShapeOf(b[i])
    /\ ConsistentRenaming(PairedNames(a, b, ir_variables_of), reserved_names \cup {var_unit})
    /\ ConsistentRenaming(PairedNames(a, b, LabelsOf), {})

C12_ConditionMustBeBool ==
    (/\ first.node # None
     /\ ast.k \in {"IfThenElse", "WhileExpr"}
     /\ IsAtom(ast.condition)
     /\ TypeOfAtom(ast.condition) # Bool)
    => /\ stage = "failed"
       /\ result.of = "typecheck"
       /\ result.exc = "TypeError"
       /\ ast.type = Unit
       /\ [ast EXCEPT !.condition.type = Unit] \in AstInputs

\* a conditional with an Int literal as condition and an else-branch has been
\* rejected
C12_Witness ==
    /\ stage = "failed"
    /\ result.exc = "TypeError"
    /\ ast.k = "IfThenElse"
    /\ ast.condition.k = "Literal" /\ ast.condition.type = IntType
    /\ ast.else_branch # None

\* C13: for an IfThenElse whose condition has type Bool, typecheck returns the
\* then-branch's type when there is no else-branch; with an else-branch it
\* succeeds exactly when the two branch types are structurally equal, and
\* then returns that common type.
C13_BranchTypesAgree ==
    (/\ first.node # None
     /\ ast.k = "IfThenElse"
     /\ IsAtom(ast.condition) /\ TypeOfAtom(ast.condition) = Bool
     /\ IsAtom(ast.then_branch)
     /\ ast.else_branch # None => IsAtom(ast.else_branch))
    => LET agree == \/ ast.else_branch = None
                    \/ TypeOfAtom(ast.then_branch) = TypeOfAtom(ast.else_branch)
       IN  /\ first.exc = "" <=> agree
           /\ first.exc # "" => first.exc = "TypeError" /\ first.node.type = Unit
           /\ first.exc = "" => /\ first.t = TypeOfAtom(ast.then_branch)
                                /\ first.node.type = first.t

\* a conditional whose branches are two distinct operators of one function
\* type has been accepted with that type
C13_Witness ==
    /\ stage = "typed"
    /\ ast.k = "IfThenElse"
    /\ ast.else_branch # None
    /\ ast.then_branch.k = "Identifier" /\ ast.else_branch.k = "Identifier"
    /\ ast.then_branch.name # ast.else_branch.name
    /\ ast.type.k = "Fun"

-----------------------------------------------------------------------------
(* Properties of operator chains, over Spec.                                *)

Keywords == {"var", "if", "then", "else", "while", "do", "not", "or", "and"}

IsOperand(token) ==
    \/ token.type = "int_literal"
    \/ token.type = "identifier" /\ token.text \notin Keywords

\* the token list is operand (operator operand)+ with operators of ops
IsChainOver(ops) ==
    /\ Len(tokens) >= 3
    /\ Len(tokens) % 2 = 1
    /\ \A i \in 1..Len(tokens) :
          IF i % 2 = 1 THEN IsOperand(tokens[i]) ELSE tokens[i].text \in ops

OperandNode(token) ==
    IF token.type = "int_literal" THEN Literal(int(token.text))
    ELSE Identifier(token.text)

\* how tightly an operator binds: assignment loosest, then the six levels
BindingLevel(op) ==
    CASE op = "=" -> 0
      [] op = "or" -> 1
      [] op = "and" -> 2
      [] op \in {"==", "!="} -> 3
      [] op \in {"<", "<=", ">", ">="} -> 4
      [] op \in {"+", "-"} -> 5
      [] op \in {"*", "/", "%"} -> 6

\* the operator applied last: a loosest one; the leftmost of them for
\* assignment, which groups right, and the rightmost otherwise
RootOperator(ops) ==
    LET loosest == { i \in 1..Len(ops) :
                       \A j \in 1..Len(ops) : BindingLevel(ops[i]) <= BindingLevel(ops[j]) }
    IN  IF \E i \in loosest : ops[i] = "="
        THEN CHOOSE i \in loosest : \A j \in loosest : i <= j
        ELSE CHOOSE i \in loosest : \A j \in loosest : i >= j

RECURSIVE GroupedTree(_, _)
GroupedTree(operands, ops) ==
    IF ops = <<>> THEN operands[1]
    ELSE LET i == RootOperator(ops)
         IN  BinaryOp(GroupedTree(SubSeq(operands, 1, i), SubSeq(ops, 1, i - 1)),
                      ops[i],
                      GroupedTree(SubSeq(operands, i + 1, Len(operands)),
                                  SubSeq(ops, i + 1, Len(ops))))

TreeOfChain ==
    GroupedTree([i \in 1..((Len(tokens) + 1) \div 2) |-> OperandNode(tokens[2 * i - 1])],
                [i \in 1..(Len(tokens) \div 2) |-> tokens[2 * i].text])

\* C14: for operands joined by binary operators of the table, without
\* parentheses, parse returns the BinaryOp tree in which or binds loosest,
\* then and, then == and !=, then the four comparisons, then + and -, then *,
\* / and %, and operators of one level group to the left.
C14_PrecedenceAndLeftGrouping ==
    (result.of = "parse" /\ IsChainOver(ChainOperators \ {"="}))
    => stage = "parsed" /\ ast = TreeOfChain

\* "1 - 2 * 3" and "1 - 2 + 3" have been parsed
C14_Witness ==
    /\ stage = "parsed"
    /\ result.of = "parse"
    /\ Len(tokens) = 5
    /\ tokens[2].text = "-"
    /\ tokens[4].text \in {"*", "+"}
    /\ ast.k = "BinaryOp"

\* C15: assignment binds looser than every operator of the table and groups
\* to the right: in a chain with assignments the first "=" is the root, all
\* that follows it is its right operand, and all before it its target.
C15_AssignmentLoosestRightGrouping ==
    (/\ result.of = "parse"
     /\ IsChainOver(ChainOperators)
     /\ \E i \in 1..Len(tokens) : i % 2 = 0 /\ tokens[i].text = "=")
    => stage = "parsed" /\ ast = TreeOfChain

\* "1 = 2 = 3" has been parsed to BinaryOp(1, "=", BinaryOp(2, "=", 3))
C15_Witness ==
    /\ stage = "parsed"
    /\ result.of = "parse"
    /\ Len(tokens) = 5
    /\ tokens[2].text = "=" /\ tokens[4].text = "="
    /\ ast.k = "BinaryOp" /\ ast.op = "="
    /\ ast.right.k = "BinaryOp" /\ ast.right.op = "="

-----------------------------------------------------------------------------
(* Properties of statement sequences, over Spec.                            *)

RECURSIVE StrayFrom(_)
RECURSIVE StrayAfter(_)

\* the place of the first token that follows a complete top-level statement
\* and is neither ";" nor the end of the input; 0 when there is none
StrayFrom(pos) ==
    IF peek(tokens, pos).type = "end" THEN 0
    ELSE StrayAfter(parse_assignment(tokens, pos))

StrayAfter(stmt) ==
    IF ~stmt.ok THEN 0
    ELSE IF peek(tokens, stmt.pos).text = ";" THEN StrayFrom(stmt.pos + 1)
    ELSE IF peek(tokens, stmt.pos).type = "end" THEN 0
    ELSE stmt.pos

\* C16: when a complete top-level statement is followed by a token that is
\* neither ";" nor the end of the input, parse fails with the error
\* "unexpected token" naming that token; and parse never returns an AST with
\* input tokens left unconsumed.
C16_NoTokenLeftBehind ==
    result.of = "parse"
    => /\ StrayFrom(1) # 0
          => /\ stage = "failed"
             /\ result.exc = "unexpected token \"" \o tokens[StrayFrom(1)].text
                              \o "\" after complete expression"
       /\ stage = "parsed" => parse(tokens).pos = Len(tokens) + 1

\* "( x ) x", "1 1" and the like have been rejected at the second statement
C16_Witness ==
    /\ stage = "failed"
    /\ result.of = "parse"
    /\ StrayFrom(1) > 1
    /\ IsOperand(tokens[StrayFrom(1)])

MatchesAt(stmt, pos) ==
    /\ pos + Len(stmt) - 1 <= Len(tokens)
    /\ \A j \in 1..Len(stmt) : tokens[pos + j - 1].text = stmt[j]

\* the longest statement of StatementTexts that starts at pos
StatementAt(pos) ==
    CHOOSE stmt \in StatementTexts :
        /\ MatchesAt(stmt, pos)
        /\ \A other \in StatementTexts : MatchesAt(other, pos) => Len(other) <= Len(stmt)

\* the statements of a block body that starts at pos and ends with the last
\* token, each with whether a ";" follows it
RECURSIVE SplitBody(_, _)
SplitBody(pos, items) ==
    IF pos >= Len(tokens) THEN [ok |-> pos = Len(tokens) /\ tokens[pos].text = "}", items |-> items]
    ELSE IF \A stmt \in StatementTexts : ~MatchesAt(stmt, pos) THEN [ok |-> FALSE, items |-> items]
    ELSE SplitBody(
             IF peek(tokens, pos + Len(StatementAt(pos))).text = ";"
             THEN pos + Len(StatementAt(pos)) + 1 ELSE pos + Len(StatementAt(pos)),
             Append(items, [text |-> StatementAt(pos),
                            semi |-> peek(tokens, pos + Len(StatementAt(pos))).text = ";"]))

BlockBody == SplitBody(2, <<>>)

IsStatementBlock == Len(tokens) >= 2 /\ tokens[1].text = "{" /\ BlockBody.ok

StatementNode(text) == parse_assignment(Toks(text), 1).node

IsBare(text) == StatementNode(text).k \in {"Identifier", "Literal"}

\* a bare name or literal that is followed by another statement without ";"
BareRunsOn ==
    \E i \in 1..(Len(BlockBody.items) - 1) :
        IsBare(BlockBody.items[i].text) /\ ~BlockBody.items[i].semi

\* C17: in a brace block, a statement that is a bare Identifier or Literal and
\* is followed by a token other than "}" or ";" makes parse fail with
\* 'expected token "}" or ";"'; a statement of any other kind may be followed
\* directly by the next statement, and the block's statements are the parsed
\* statements in source order.
C17_BlockStatementSeparators ==
    (result.of = "parse" /\ IsStatementBlock)
    => IF BareRunsOn
       THEN stage = "failed" /\ result.exc = "expected token \"}\" or \";\""
       ELSE /\ stage = "parsed"
            /\ ast.k = "BlockExpr"
            /\ Len(ast.statements) >= Len(BlockBody.items)
            /\ \A i \in 1..Len(BlockBody.items) :
                  ast.statements[i] = StatementNode(BlockBody.items[i].text)

\* a block of two statements, the first a bare literal or name with no ";"
\* after it, has been rejected
C17_Witness ==
    /\ stage = "failed"
    /\ result.of = "parse"
    /\ IsStatementBlock
    /\ Len(BlockBody.items) = 2
    /\ BareRunsOn

\* C18: when the top-level statement sequence ends with ";" after its last
\* statement, parse returns a BlockExpr whose statements are the parsed
\* statements followed by the synthetic Identifier "Unit", also when there is
\* a single statement.
C18_TopLevelTrailingSemicolon ==
    (/\ result.of = "parse"
     /\ stage = "parsed"
     /\ Last(tokens).text = ";")
    => /\ ast.k = "BlockExpr"
       /\ Len(ast.statements) >= 2
       /\ Last(ast.statements) = Identifier("Unit")

-----------------------------------------------------------------------------
(* Properties of the interpreter.                                           *)

\* the name a VarExpr declares, held as a str or (by the parser) as an Identifier
DeclaredName(node) == IF node.name.k = "str" THEN node.name.s ELSE node.name.name

\* { var x = literal; { var x = literal; x }; x }
RedeclaredInInnerBlock(node) ==
    /\ node.k = "BlockExpr"
    /\ Len(node.statements) = 3
    /\ node.statements[1].k = "VarExpr"
    /\ node.statements[1].initializer.k = "Literal"
    /\ node.statements[2].k = "BlockExpr"
    /\ Len(node.statements[2].statements) = 2
    /\ node.statements[2].statements[1].k = "VarExpr"
    /\ node.statements[2].statements[1].initializer.k = "Literal"
    /\ DeclaredName(node.statements[2].statements[1]) = DeclaredName(node.statements[1])
    /\ node.statements[2].statements[2] = Identifier(DeclaredName(node.statements[1]))
    /\ node.statements[3] = Identifier(DeclaredName(node.statements[1]))

\* C19: a VarExpr executed inside an inner BlockExpr binds its name only in
\* that block's frame and leaves the outer binding of the same name as it
\* was: "{ var x = 1; { var x = 2; x }; x }" evaluates to 1, and the
\* environment handed to interpret is unchanged.
C19_InnerDeclarationShadowsOnly ==
    (result.of = "interpret" /\ RedeclaredInInnerBlock(ast))
    => /\ result.exc = ""
       /\ returned = ast.statements[1].initializer.value
       /\ ienv = setup_global_env

-----------------------------------------------------------------------------
(* Properties of the assembly of integer constants *)

\* the stack slot generate_assembly gives an IR variable of the list
SlotOf(instructions, v) == get_ref(Locals(get_all_ir_variables(instructions)), v)

HasLine(lines, line) == \E j \in 1..Len(lines) : lines[j] = line

HasLinePair(lines, line, following) ==
    \E j \in 1..(Len(lines) - 1) : lines[j] = line /\ lines[j + 1] = following

\* the lines for one LoadIntConst: a value of one signed 32-bit word is moved
\* to the slot directly, any other value goes through %rax
LoadedAsClaimed(lines, value, slot) ==
    LET direct == "movq $" \o int_str(value) \o ", " \o slot
        wide == "movabsq $" \o int_str(value) \o ", %rax"
    IN  IF value.k = 0
        THEN HasLine(lines, direct) /\ ~HasLine(lines, wide)
        ELSE HasLinePair(lines, wide, "movq %rax, " \o slot) /\ ~HasLine(lines, direct)

\* C20: for every instruction list that generate_assembly has translated,
\* each LoadIntConst with -2^31 <= v < 2^31 gives the line "movq $v, slot",
\* and each LoadIntConst with any other value gives "movabsq $v, %rax"
\* followed by "movq %rax, slot"; 2147483647 is loaded with movq and
\* 2147483648 with movabsq.
C20_WideConstantsUseMovabsq ==
    (result.of = "generate_assembly" /\ result.exc = "")
    => \A i \in 1..Len(ins) :
          ins[i].op = "LoadIntConst"
          => /\ LoadedAsClaimed(asm.lines, ins[i].value, SlotOf(ins, ins[i].dest))
             /\ ins[i].value = PyInt(2147483647)
                => HasLine(asm.lines, "movq $2147483647, " \o SlotOf(ins, ins[i].dest))
             /\ ins[i].value = Wide(1, -2147483647 - 1)
                => HasLinePair(asm.lines, "movabsq $2147483648, %rax",
                               "movq %rax, " \o SlotOf(ins, ins[i].dest))

\* an instruction list with 2147483647 and 2147483648 has been translated
C20_Witness ==
    /\ result.of = "generate_assembly" /\ result.exc = ""
    /\ \E i, j \in 1..Len(ins) :
          /\ ins[i].op = "LoadIntConst" /\ ins[i].value = PyInt(2147483647)
          /\ ins[j].op = "LoadIntConst" /\ ins[j].value = Wide(1, -2147483647 - 1)

-----------------------------------------------------------------------------
(* Properties of the stack frame.  The emitted lines change %rsp only in    *)
(* the prologue, around a call and in the epilogue, and every jump lands on *)
(* a label between the lines of two IR instructions, so %rsp at a line is   *)
(* the same on every path that reaches it: it is computed by reading the    *)
(* lines in order.                                                          *)

\* %rsp and %rbp after a line, as byte offsets from %rsp on entry to main;
\* frame is the operand of the prologue's subq
StackAfterLine(line, frame, stack) ==
    IF line = "pushq %rbp" THEN [stack EXCEPT !.rsp = @ - 8]
    ELSE IF line = "popq %rbp" THEN [stack EXCEPT !.rsp = @ + 8]
    ELSE IF line = "movq %rsp, %rbp" THEN [stack EXCEPT !.rbp = stack.rsp]
    ELSE IF line = "movq %rbp, %rsp" THEN [stack EXCEPT !.rsp = stack.rbp]
    ELSE IF line = "subq $8, %rsp" THEN [stack EXCEPT !.rsp = @ - 8]
    ELSE IF line = "addq $8, %rsp" THEN [stack EXCEPT !.rsp = @ + 8]
    ELSE IF line = "subq $" \o ToString(frame) \o ", %rsp" THEN [stack EXCEPT !.rsp = @ - frame]
    ELSE stack

\* %rsp and %rbp after the first n lines
RECURSIVE StackAfter(_, _, _)
StackAfter(lines, frame, n) ==
    IF n = 0 THEN [rsp |-> 0, rbp |-> 0]
    ELSE StackAfterLine(lines[n], frame, StackAfter(lines, frame, n - 1))

CallLines == {"callq print_int", "callq print_bool", "callq read_int", "call *%rax"}

\* the calls of the emitted text at which %rsp is not a multiple of 16, when
\* %rsp is congruent to 8 modulo 16 on entry
MisalignedCalls ==
    { j \in 1..Len(asm.lines) :
        /\ asm.lines[j] \in CallLines
        /\ (8 + StackAfter(asm.lines, 8 * Len(get_all_ir_variables(ins)), j - 1).rsp) % 16 # 0 }

\* C21: in the text generate_assembly emits for any instruction list, with
\* %rsp congruent to 8 modulo 16 on entry to main, %rsp is a multiple of 16
\* at every callq print_int, callq print_bool, callq read_int and call *%rax,
\* whatever the number of IR variables is.
C21_CallsAligned ==
    (result.of = "generate_assembly" /\ result.exc = "") => MisalignedCalls = {}

-----------------------------------------------------------------------------
(* Properties of the tokenizer, over SpecText.                              *)

\* the 1-based line and column of the p-th character of the source text: a
\* newline ends its line, and the next character is in column 1
LineOf(p) == 1 + Cardinality({q \in 1..(p - 1) : source_text[q] = "\n"})
ColumnOf(p) == Cardinality({q \in 1..p : \A between \in q..(p - 1) : source_text[between] # "\n"})

\* the token's text stands in the source text from position p on
StandsAt(token, p) ==
    \E count \in 1..(Len(source_text) - p + 1) :
        /\ token.text = text_at(source_text, p, count)
        /\ token.loc = Location(LineOf(p), ColumnOf(p))

\* C22: for every source string, each token returned by tokenize has a text
\* that is a contiguous substring of the source, and its location is the
\* 1-based line and column of that substring's first character; also for
\* tokens after whitespace, after a comment, after an unmatched character.
C22_TokenLocations ==
    stage = "tokenized"
    => \A k \in 1..Len(tokens) : \E p \in 1..Len(source_text) : StandsAt(tokens[k], p)

\* a comment line, then an unmatched character and an identifier on line 2
C22_Witness ==
    /\ stage = "tokenized"
    /\ source_text = <<"#", "\n", "$", "a">>
    /\ Len(tokens) = 2
    /\ tokens[1].type = "other" /\ tokens[1].loc = Location(2, 1)
    /\ tokens[2].type = "identifier" /\ tokens[2].loc = Location(2, 2)

-----------------------------------------------------------------------------
(* Properties of SymTab.assign, over SpecEnv.                               *)

IsRootAssignment(node) ==
    node.k = "BinaryOp" /\ node.op = "=" /\ node.left.k = "Identifier" /\ node.right.k = "Literal"

\* the frames of a chain that bind the name
BindingFrames(chain, name) == {d \in 1..Len(chain) : name \in DOMAIN chain[d]}

\* the innermost of them
InnermostBinding(chain, name) ==
    CHOOSE d \in BindingFrames(chain, name) : \A other \in BindingFrames(chain, name) : other <= d

\* after differs from before in exactly the binding of name in frame d
OneBindingChanged(before, after, d, name, value) ==
    /\ Len(after) = Len(before)
    /\ \A depth \in 1..Len(before) :
          /\ DOMAIN after[depth] = DOMAIN before[depth]
          /\ \A n \in DOMAIN before[depth] :
                after[depth][n] = IF depth = d /\ n = name THEN value ELSE before[depth][n]

IsNestedAssignment(node) ==
    /\ node.k = "BlockExpr" /\ Len(node.statements) = 3
    /\ node.statements[1].k = "VarExpr"
    /\ node.statements[2].k = "BlockExpr"
    /\ IsRootAssignment(node.statements[2].statements[1])
    /\ node.statements[2].statements[1].left.name = node.statements[1].name.s
    /\ node.statements[3] = Identifier(node.statements[1].name.s)

\* C23: env.assign(name, value), as the assignment "name = value" performs
\* it on the environment it is evaluated in, changes exactly the binding of
\* name in the innermost frame of the chain that binds name: no other frame
\* and no other name changes and no binding is created; when no frame binds
\* name it raises and changes nothing.  An assignment in a nested block to a
\* variable declared in the enclosing block is visible after the nested
\* block has ended.
C23_AssignChangesOneBinding ==
    [][ /\ (stage = "parsed" /\ IsRootAssignment(ast))
           => IF BindingFrames(ienv, ast.left.name) = {}
              THEN result'.exc = "NameError" /\ ienv' = ienv
              ELSE /\ result'.exc = ""
                   /\ OneBindingChanged(ienv, ienv', InnermostBinding(ienv, ast.left.name),
                                        ast.left.name, ast.right.value)
        /\ (stage = "parsed" /\ IsNestedAssignment(ast))
           => /\ result'.exc = ""
              /\ returned' = ast.statements[2].statements[1].right.value
              /\ ienv' = ienv ]_vars

\* x = 5 has run on a chain of three frames whose middle frame is the
\* innermost that binds x, over a global x
C23_Witness ==
    /\ stage = "interpreted"
    /\ IsRootAssignment(ast) /\ ast.left.name = "x"
    /\ Len(ienv) = 3
    /\ BindingFrames(ienv, "x") = {1, 2}
    /\ ienv[2]["x"] = PyInt(5) /\ ienv[1]["x"] = PyInt(2)

-----------------------------------------------------------------------------
(* Properties of the lowering of or and and, over Spec.  An instruction     *)
(* list is executed from its first instruction in list order: a Label does  *)
(* nothing, Jump and CondJump continue at the Label of the name, the other  *)
(* instructions write their dest.  A jump to a name that several Labels     *)
(* carry has no defined target, and the run ends there.                     *)

LabelIndexes(instructions, name) ==
    {t \in 1..Len(instructions) : instructions[t] = Label(name)}

\* where execution can end: at the Label it was asked to stop at, after the
\* last instruction, at a jump without a target or with several, at a read
\* of a variable never written, or not within the steps allowed
Ended(how, mem, visited) == [end |-> how, mem |-> mem, visited |-> visited]

Readable(mem, names) == \A i \in 1..Len(names) : names[i] \in DOMAIN mem

RECURSIVE RunIR(_, _, _, _, _, _)
RunIR(instructions, pc, mem, visited, stop, steps) ==
    IF pc > Len(instructions) THEN Ended("end of list", mem, visited)
    ELSE IF instructions[pc] = Label(stop) THEN Ended("stop", mem, visited \cup {pc})
    ELSE IF steps = 0 THEN Ended("still running", mem, visited)
    ELSE LET insn == instructions[pc]
             seen == visited \cup {pc}
             Continue(at, written) == RunIR(instructions, at, written, seen, stop, steps - 1)
             Goto(name) ==
                 IF LabelIndexes(instructions, name) = {}
                 THEN Ended("no target", mem, seen)
                 ELSE IF Cardinality(LabelIndexes(instructions, name)) > 1
                 THEN Ended("several targets", mem, seen)
                 ELSE Continue(CHOOSE t \in LabelIndexes(instructions, name) : TRUE, mem)
         IN  CASE insn.op = "Label" -> Continue(pc + 1, mem)
               [] insn.op = "LoadBoolConst" ->
                      Continue(pc + 1, (insn.dest :> PyBool(insn.value)) @@ mem)
               [] insn.op = "LoadIntConst" ->
                      Continue(pc + 1, (insn.dest :> insn.value) @@ mem)
               [] insn.op = "Copy" ->
                      IF insn.source \notin DOMAIN mem
                      THEN Ended("undefined read", mem, seen)
                      ELSE Continue(pc + 1, (insn.dest :> mem[insn.source]) @@ mem)
               [] insn.op = "Jump" -> Goto(insn.label)
               [] insn.op = "CondJump" ->
                      IF insn.cond \notin DOMAIN mem
                      THEN Ended("undefined read", mem, seen)
                      ELSE Goto(IF truthy(mem[insn.cond]) THEN insn.then_label
                                                         ELSE insn.else_label)
               [] insn.op = "Call" ->
                      IF ~Readable(mem, <<insn.fun>> \o insn.args)
                      THEN Ended("undefined read", mem, seen)
                      ELSE Continue(pc + 1,
                                    (insn.dest :>
                                        invoke(mem[insn.fun],
                                               [i \in 1..Len(insn.args) |-> mem[insn.args[i]]],
                                               [env |-> <<>>, inp |-> <<>>, out |-> <<>>]).value)
                                    @@ mem)

\* the global names hold the built-in functions
InitialMemory == setup_global_env[1]

\* the value of an expression built from true, false, or and and
RECURSIVE TruthOf(_)
TruthOf(node) ==
    IF node.k = "Identifier" THEN node.name = "true"
    ELSE IF node.op = "or" THEN TruthOf(node.left) \/ TruthOf(node.right)
    ELSE TruthOf(node.left) /\ TruthOf(node.right)

IsBoolChain ==
    /\ Len(tokens) >= 3
    /\ \A i \in 1..Len(tokens) :
          tokens[i].text \in (IF i % 2 = 1 THEN {"true", "false"} ELSE {"or", "and"})

\* the run of the list up to the end label of the root operator, which is
\* the first of its kind to take its label names
RunToEnd == RunIR(ins, 1, InitialMemory, {}, ast.op \o "_end", 2 * Len(ins))

\* the instructions lowered from the right operand: those between the
\* root's right label and its Copy to the result
RightOperandIndexes ==
    { i \in 1..Len(ins) :
        /\ \E t \in LabelIndexes(ins, ast.op \o "_right") : t < i
        /\ \E t \in LabelIndexes(ins, ast.op \o "_skip") : i < t - 2 }

\* the result variable: the dest of the LoadBoolConst under the skip label
ResultVariable ==
    ins[(CHOOSE t \in LabelIndexes(ins, ast.op \o "_skip") : TRUE) + 1].dest

RightOperandNeeded == IF ast.op = "or" THEN ~TruthOf(ast.left) ELSE TruthOf(ast.left)

\* C24: executing the instruction list of "a or b" and of "a and b", the
\* instructions lowered from b are executed exactly when a is false (or),
\* respectively true (and), and the run reaches the end label with the
\* result variable holding a-or-b, respectively a-and-b.
C24_ShortCircuitExecution ==
    (stage = "lowered" /\ IsBoolChain)
    => /\ RunToEnd.end = "stop"
       /\ (RunToEnd.visited \cap RightOperandIndexes # {}) <=> RightOperandNeeded
       /\ ResultVariable \in DOMAIN RunToEnd.mem
       /\ RunToEnd.mem[ResultVariable] = PyBool(TruthOf(ast))

-----------------------------------------------------------------------------
(* Properties of the lowering of declarations, over SpecAst.                *)

\* the declarations generate_ir reaches as the root, as a statement of a block
\* or as the initializer of such a declaration, each with the symbol table and
\* the generator state it is lowered in
RECURSIVE DeclarationsLowered(_, _, _)
DeclarationsLowered(st, expr, ctx) ==
    CASE expr.k = "VarExpr" ->
            {[st |-> st, expr |-> expr, ctx |-> ctx]}
            \cup (IF expr.name.k = "str" /\ expr.name.s \notin DOMAIN st[Len(st)]
                  THEN DeclarationsLowered(st, expr.initializer, ctx)
                  ELSE {})
      [] expr.k = "BlockExpr" ->
            UNION { LET before == visit_statements(Append(st, EmptyFrame),
                                                   SubSeq(expr.statements, 1, i - 1),
                                                   1, var_unit, ctx)
                    IN  IF before.exc # "" THEN {}
                        ELSE DeclarationsLowered(before.st, expr.statements[i], before.ctx) :
                    i \in 1..Len(expr.statements) }
      [] OTHER -> {}

DeclarationsOfProgram == DeclarationsLowered(root_symtab(reserved_names), ast, NewContext)

BoundInOwnFrame(d) == d.expr.name.s \in DOMAIN d.st[Len(d.st)]

BoundInEnclosingFrame(d) ==
    \E f \in 1..(Len(d.st) - 1) : d.expr.name.s \in DOMAIN d.st[f]

\* the IR variables named by the instructions emitted so far or bound in st
VariablesInUse(st, ctx) ==
    UNION { { ir_variables_of(ctx.ins[i])[j] : j \in 1..Len(ir_variables_of(ctx.ins[i])) } :
            i \in 1..Len(ctx.ins) }
    \cup UNION { { st[f][n] : n \in DOMAIN st[f] } : f \in 1..Len(st) }

\* the declaration stops at once: nothing lowered, emitted or bound
FailsAtOnce(d) ==
    LET out == visit(d.st, d.expr, d.ctx)
    IN  /\ out.exc = "Exception"
        /\ out.ctx = d.ctx
        /\ out.st = d.st

\* the declaration does what its initializer does and then binds the name, in
\* its own frame, to a variable not in use
BindsFresh(d) ==
    LET out == visit(d.st, d.expr, d.ctx)
        init == visit(d.st, d.expr.initializer, d.ctx)
    IN  IF init.exc # "" THEN out.exc = init.exc
        ELSE /\ out.exc = ""
             /\ Len(out.st) = Len(d.st)
             /\ d.expr.name.s \in DOMAIN out.st[Len(out.st)]
             /\ out.st[Len(out.st)][d.expr.name.s] \notin VariablesInUse(init.st, init.ctx)
             /\ \A f \in 1..(Len(d.st) - 1) : out.st[f] = d.st[f]

\* C25: generate_ir fails on a declaration exactly when its name is bound in
\* the frame the declaration is lowered in, and then before the initializer
\* is lowered or anything is emitted; a declaration whose name is bound only
\* in an enclosing frame succeeds and binds the name to a fresh IR variable.
C25_RedeclarationFails ==
    result.of = "generate_ir"
    => \A d \in DeclarationsOfProgram :
           IF BoundInOwnFrame(d) THEN FailsAtOnce(d) ELSE BindsFresh(d)

\* a block that shadows the x of the enclosing block and then declares x a
\* second time in its own frame
C25_Witness ==
    /\ result.of = "generate_ir"
    /\ result.exc = "Exception"
    /\ \E d \in DeclarationsOfProgram : BoundInOwnFrame(d)
    /\ \E d \in DeclarationsOfProgram : ~BoundInOwnFrame(d) /\ BoundInEnclosingFrame(d)

\* a reserved global shadowed from inside a block
ShadowsReservedGlobal ==
    /\ result.of = "generate_ir"
    /\ result.exc = ""
    /\ \E d \in DeclarationsOfProgram :
           /\ d.expr.name.s \in reserved_names
           /\ Len(d.st) > 1
           /\ ~BoundInOwnFrame(d)

-----------------------------------------------------------------------------
(* Properties of the slot allocation, over Spec.                            *)

\* every IR variable an instruction names, field by field, and the variables
\* of a whole list in the order they are met
RECURSIVE VariableOccurrences(_)
VariableOccurrences(instructions) ==
    IF instructions = <<>> THEN <<>>
    ELSE LET insn == Head(instructions)
         IN  (CASE insn.op = "LoadIntConst" -> <<insn.dest>>
                [] insn.op = "LoadBoolConst" -> <<insn.dest>>
                [] insn.op = "Copy" -> <<insn.source, insn.dest>>
                [] insn.op = "Call" -> <<insn.fun>> \o insn.args \o <<insn.dest>>
                [] insn.op = "CondJump" -> <<insn.cond>>
                [] insn.op \in {"Jump", "Label"} -> <<>>)
             \o VariableOccurrences(Tail(instructions))

FirstAppearance(occurrences, v) ==
    CHOOSE p \in 1..Len(occurrences) :
        occurrences[p] = v /\ \A q \in 1..(p - 1) : occurrences[q] # v

\* v is the i-th distinct variable of the list
RankOf(occurrences, v) ==
    Cardinality({ occurrences[q] : q \in 1..FirstAppearance(occurrences, v) })

SlotsAsClaimed(instructions) ==
    LET occurrences == VariableOccurrences(instructions)
        referenced == { occurrences[p] : p \in 1..Len(occurrences) }
        locals == Locals(get_all_ir_variables(instructions))
    IN  /\ DOMAIN locals.var_to_location = referenced
        /\ \A v \in referenced :
               /\ get_ref(locals, v) = "-" \o ToString(8 * RankOf(occurrences, v)) \o "(%rbp)"
               /\ 8 * RankOf(occurrences, v) <= locals.stack_used
        /\ \A v, w \in referenced : v # w => get_ref(locals, v) # get_ref(locals, w)
        /\ locals.stack_used = 8 * Cardinality(referenced)

\* C26: the i-th distinct IR variable of the instruction list, in order of
\* first appearance over every variable field and argument, has the slot
\* -(8*i)(%rbp); distinct variables have distinct slots, every variable named
\* by an instruction has a slot within the frame, and stack_used is 8 times
\* the number of distinct variables.
C26_SlotAllocation ==
    result.of = "generate_assembly" => SlotsAsClaimed(ins)

\* a list that names a variable a second time after other variables, calls a
\* global, and has at least four variables
C26_Witness ==
    /\ result.of = "generate_assembly"
    /\ result.exc = ""
    /\ Len(get_all_ir_variables(ins)) >= 4
    /\ Len(VariableOccurrences(ins)) > Len(get_all_ir_variables(ins)) + 2
    /\ \E i \in 1..Len(ins) : ins[i].op = "Call" /\ Len(ins[i].args) >= 2
    /\ \E i \in 1..Len(ins) : ins[i].op = "CondJump"

-----------------------------------------------------------------------------
(* Properties of the type environment, over SpecAst.                        *)

\* C27: typecheck(node, env) leaves the bindings of the environment the
\* caller passed as they were, whether it succeeds or fails: after the call
\* env holds exactly the preinstalled globals.
C27_CallerEnvUnchanged ==
    result.of = "typecheck" => tenv = setup_type_env

-----------------------------------------------------------------------------
(* Properties of the type slots, over Spec.                                 *)

\* the expression nodes directly under a node, in the order of the rules
ChildNodes(node) ==
    CASE node.k = "UnaryOp" -> <<node.operand>>
      [] node.k = "BinaryOp" -> <<node.left, node.right>>
      [] node.k = "IfThenElse" ->
            <<node.condition, node.then_branch>>
            \o (IF node.else_branch = None THEN <<>> ELSE <<node.else_branch>>)
      [] node.k = "WhileExpr" -> <<node.condition, node.body>>
      [] node.k = "FunctionExpr" -> <<node.function_name>> \o node.arguments
      [] node.k = "BlockExpr" -> node.statements
      [] node.k = "VarExpr" ->
            <<node.initializer>> \o (IF node.typed = None THEN <<>> ELSE <<node.typed>>)
      [] node.k = "FunctionTypeExpr" ->
            (IF node.param_types = None THEN <<>> ELSE node.param_types.items)
            \o <<node.return_type>>
      [] OTHER -> <<>>

\* the node and every node under it hold the type the rules give them in the
\* environment they stand in
RECURSIVE SlotsFilled(_, _)
RECURSIVE ChildSlotsFilled(_, _, _)
SlotsFilled(node, env) ==
    /\ typecheck(node, env).exc = ""
    /\ node.type = typecheck(node, env).t
    /\ ChildSlotsFilled(ChildNodes(node), 1,
                        IF node.k = "BlockExpr" THEN Append(env, EmptyFrame) ELSE env)

ChildSlotsFilled(children, i, env) ==
    \/ i > Len(children)
    \/ /\ SlotsFilled(children[i], env)
       /\ ChildSlotsFilled(children, i + 1, typecheck(children[i], env).env)

\* C28: after typecheck has succeeded, every expression node of the AST holds
\* in its type slot the type the typing rules assign to it, the callee and
\* every argument of every FunctionExpr included.
C28_EveryNodeTyped ==
    (first.node # None /\ first.exc = "") => SlotsFilled(first.node, setup_type_env)

-----------------------------------------------------------------------------
(* Properties of and and or as callees, over Spec.                          *)

-----------------------------------------------------------------------------
(* Properties of the number of arguments, over Spec.                        *)

ParametersOf(call) == lookup(setup_type_env, call.function_name.name).t.params

\* C30: a FunctionExpr that typecheck has accepted has as many arguments as
\* the Fun type of its callee has parameters.
C30_ArityChecked ==
    (first.node # None /\ first.exc = "" /\ first.node.k = "FunctionExpr")
    => Len(first.node.arguments) = Len(ParametersOf(first.node))

====
